---- MODULE Spec2Model ----
(***************************************************************************)
(* State-machine model of the market-data hook useBinanceData              *)
(* (src/src/features/trading/hooks/useBinanceData.ts) together with the    *)
(* service functions it calls (src/src/features/trading/services/          *)
(* binance.ts) and the limits table (src/src/features/trading/             *)
(* constants.ts).                                                          *)
(*                                                                         *)
(* One action per handler: a commit of the component (render followed by   *)
(* the cleanups and bodies of the effects whose dependencies changed), the *)
(* settlement of a REST request, the request timer, refetch, and the       *)
(* WebSocket events.  A handler runs to completion, including the promise  *)
(* reactions it triggers in the same task (an abort rejects the pending    *)
(* fetch, whose catch block runs before any other task).                   *)
(***************************************************************************)
EXTENDS Integers, Sequences, FiniteSets, TLC

\* ------------------------------------------------------------------ bounds
MaxTime == 2      \* candle open times are 1..MaxTime
MaxLoad == 2      \* longest historical response
MaxLen  == 2      \* longest candle series explored when the limit is larger
MaxRefetch == 1   \* refetch requests in flight at once
MaxSock == 2      \* WebSocket objects alive at once
SmallLimit == 2   \* the explicit limit option explored besides an absent one

\* ------------------------------------------------------- program constants
IntervalMaxLimit == 1000
DefaultLimit == 500

Undefined == -1   \* stands for an absent limit option
NoSock == 0
NaN == -2         \* the number NaN, as parseFloat and Math.floor return it
Null == -3        \* the value null where a number is expected
Infinity == 1000000
EffSlot == 0      \* slot of the request owned by the fetch effect

UpperChars ==
  <<"A","B","C","D","E","F","G","H","I","J","K","L","M",
    "N","O","P","Q","R","S","T","U","V","W","X","Y","Z">>

LowerChars ==
  <<"a","b","c","d","e","f","g","h","i","j","k","l","m",
    "n","o","p","q","r","s","t","u","v","w","x","y","z">>

Range(f) == {f[i] : i \in DOMAIN f}

\* lower-case letter -> upper-case letter
UpperOf ==
  [c \in Range(LowerChars) |->
     UpperChars[CHOOSE k \in 1..26 : LowerChars[k] = c]]

UpperSet == Range(UpperChars)

\* String.prototype.toUpperCase on a sequence of characters
toUpperCase(s) ==
  [i \in 1..Len(s) |-> IF s[i] \in DOMAIN UpperOf THEN UpperOf[s[i]] ELSE s[i]]

\* variant of validateSymbol: the USDT suffix is not required
validateSymbol_NoSuffix(s) ==
  LET u == toUpperCase(s)
      n == Len(u)
  IN  /\ n >= 2
      /\ n <= 14
      /\ \A i \in 1..n : u[i] \in UpperSet

\* variant of validateSymbol: the symbol is tested as given, not upper-cased
validateSymbol_NoUpper(s) ==
  LET u == s
      n == Len(u)
  IN  /\ n >= 6
      /\ n <= 14
      /\ SubSeq(u, n - 3, n) = <<"U","S","D","T">>
      /\ \A i \in 1..(n - 4) : u[i] \in UpperSet

\* /^[A-Z]{2,10}USDT$/.test(symbol.toUpperCase())
validateSymbol(s) ==
  LET u == toUpperCase(s)
      n == Len(u)
  IN  /\ n >= 6
      /\ n <= 14
      /\ SubSeq(u, n - 3, n) = <<"U","S","D","T">>
      /\ \A i \in 1..(n - 4) : u[i] \in UpperSet

\* the symbols and intervals the host passes to the hook
Symbols ==
  { <<"B","T","C","U","S","D","T">>,
    <<"e","t","h","u","s","d","t">>,
    <<"B","T","C">> }

Intervals == {"1d", "1h"}

\* validateSymbol(symbol) for each symbol the host passes, computed once
SymbolIsValid == [sym \in Symbols |-> validateSymbol(sym)]

\* what the page passes first (src/src/app/page.tsx)
DefaultSymbol == <<"B","T","C","U","S","D","T">>
DefaultInterval == "1d"

KnownIntervals ==
  {"1m","3m","5m","15m","30m","1h","2h","4h","6h","8h","12h","1d","3d","1w","1M"}

Limits == {SmallLimit, Undefined}

\* INTERVAL_MAX_LIMITS[interval] || CHART_CONFIG.defaultLimit
getMaxLimitForInterval(itv) ==
  IF itv \in KnownIntervals THEN IntervalMaxLimit ELSE DefaultLimit

\* limit ?? getMaxLimitForInterval(interval)
calculatedLimit(lim, itv) ==
  IF lim = Undefined THEN getMaxLimitForInterval(itv) ELSE lim

enableWebSocket == TRUE

\* ---------------------------------------------------------------- candles
Closes == {0, 1}
Candles == [time : 1..MaxTime, close : Closes]
NoCandle == [time |-> 0, close |-> 0]

Min(a, b) == IF a < b THEN a ELSE b

IsAscending(s) == \A i \in 1..(Len(s) - 1) : s[i].time < s[i + 1].time

\* what fetchKlines resolves with: a non-empty ascending series of at most
\* lim candles
\* candles of a historical response (one close price is enough there; the
\* stream delivers the other, so that a replaced candle differs)
HistCandles == {c \in Candles : c.close = 0}

AllResponses ==
  UNION { {s \in [1..n -> HistCandles] : IsAscending(s)} : n \in 1..MaxLoad }

Responses(lim) == {s \in AllResponses : Len(s) <= lim}

\* variant of SliceLast: the truncation is forgotten
SliceLast_NoTruncate(s, n) == s

\* Array.prototype.slice(-n) for n >= 0
SliceLast(s, n) ==
  IF n = 0 \/ n >= Len(s) THEN s ELSE SubSeq(s, Len(s) - n + 1, Len(s))

\* variant of MergeKline: a candle with the time of the last one is ignored
MergeKline_KeepOld(prevData, newKline, lim) ==
  IF prevData # <<>> /\ prevData[Len(prevData)].time = newKline.time
  THEN prevData
  ELSE SliceLast(Append(prevData, newKline), lim)

\* variant of MergeKline: the overflow is cut at the back (slice(0, lim))
MergeKline_DropNewest(prevData, newKline, lim) ==
  IF prevData # <<>> /\ prevData[Len(prevData)].time = newKline.time
  THEN Append(SubSeq(prevData, 1, Len(prevData) - 1), newKline)
  ELSE SubSeq(Append(prevData, newKline), 1, Min(lim, Len(prevData) + 1))

\* the setData updater of the WebSocket onMessage callback
MergeKline(prevData, newKline, lim) ==
  IF prevData # <<>> /\ prevData[Len(prevData)].time = newKline.time
  THEN Append(SubSeq(prevData, 1, Len(prevData) - 1), newKline)
  ELSE SliceLast(Append(prevData, newKline), lim)


\* ------------------------------------------------------------------ state
VARIABLES
  phase,             \* "init" before the first commit, "mounted", "unmounted"
  symbol,            \* props of the hook
  interval,
  limit,
  data,              \* useState: candle series
  loading,           \* useState
  error,             \* useState: "none" or the kind of Error stored
  rLoading,          \* loading as seen by the latest render
  rDataLen,          \* data.length as seen by the latest render
  wsRef,             \* useRef: current WebSocket (index into socks) or NoSock
  isMounted,         \* isMountedRef.current
  previousInterval,  \* previousIntervalRef.current ("null" before first run)
  reqs,              \* REST requests in flight: slot -> request
  socks,             \* WebSocket objects: slot -> socket
  dataSel,           \* history: selection of the load that last set data
  last,              \* history: the handler that ran last and what it did
  stream,            \* one socket of createKlineWebSocket seen on its own:
                     \* readyState, messages arrived, klines given to onMessage
  call,              \* the last call of a function seen on its own: its
                     \* arguments and what it returned or passed on
  ui,                \* TradingChartModule and the click handling of the
                     \* chart: horizontal lines, context menu, listeners
  raf                \* the animation-frame callbacks of the three hooks
                     \* that follow the crosshair

\* the state of useBinanceData
hookVars ==
  << phase, symbol, interval, limit, data, loading, error, rLoading, rDataLen,
     wsRef, isMounted, previousInterval, reqs, socks, dataSel, last >>

\* the state outside useBinanceData, which no handler of the hook touches
auxVars == << stream, call, ui, raf >>

vars == << hookVars, auxVars >>

NoSel == [symbol |-> <<>>, interval |-> "none"]
Sel(sym, itv) == [symbol |-> sym, interval |-> itv]

NoRequest ==
  [state |-> "none", kind |-> "none", symbol |-> <<>>, interval |-> "none",
   limit |-> 0]

NoSocket == [state |-> "none", symbol |-> <<>>, interval |-> "none"]
ClosedSocket == [state |-> "closed", symbol |-> <<>>, interval |-> "none"]

FetchErrors == {"upstream"}

\* the three pieces of React state a handler may set, with a flag telling
\* whether it called a setter at all
St == [data |-> data, loading |-> loading, error |-> error, wrote |-> FALSE]

Last(act, sym, itv, wrote, inb, closed) ==
  [act |-> act, symbol |-> sym, interval |-> itv, wrote |-> wrote, inb |-> inb,
   closed |-> closed, reclosed |-> FALSE,
   prevLen |-> IF inb = NoCandle THEN 0 ELSE Len(data),
   prevLastTime |-> IF inb = NoCandle \/ data = <<>> THEN 0
                    ELSE data[Len(data)].time]

\* -------------------------------------------------- handlers of performFetch
\* success continuation of performFetch (effect-driven load)
performFetchThen(st, klines, aborted, isCancelled) ==
  IF aborted \/ isCancelled
  THEN st
  ELSE [data |-> klines, loading |-> FALSE, error |-> "none", wrote |-> TRUE]

\* variant of performFetchCatch: a failure also empties the series
performFetchCatch_ClearData(st, err, isCancelled) ==
  IF err = "AbortError" THEN st
  ELSE IF isCancelled THEN st
  ELSE [st EXCEPT !.data = <<>>, !.error = err, !.loading = FALSE,
                  !.wrote = TRUE]

\* catch block of performFetch
performFetchCatch(st, err, isCancelled) ==
  IF err = "AbortError" THEN st
  ELSE IF isCancelled THEN st
  ELSE [st EXCEPT !.error = err, !.loading = FALSE, !.wrote = TRUE]

\* variant of performFetchTimeout: the timer sets the error only
performFetchTimeout_KeepLoading(st, isCancelled) ==
  IF ~isCancelled
  THEN [st EXCEPT !.error = "timeout", !.wrote = TRUE]
  ELSE st

\* timer callback of performFetch (abort() is applied by the caller)
performFetchTimeout(st, isCancelled) ==
  IF ~isCancelled
  THEN [st EXCEPT !.error = "timeout", !.loading = FALSE, !.wrote = TRUE]
  ELSE st

\* ----------------------------------------------------- handlers of fetchData
fetchDataThen(st, klines, skipMountedCheck, mounted) ==
  IF skipMountedCheck \/ mounted
  THEN [data |-> klines, loading |-> FALSE, error |-> "none", wrote |-> TRUE]
  ELSE st

fetchDataCatch(st, err, skipMountedCheck, mounted) ==
  IF skipMountedCheck \/ mounted
  THEN [st EXCEPT
          !.error = IF err = "AbortError" THEN "cancelledOrTimedOut" ELSE err,
          !.loading = FALSE, !.wrote = TRUE]
  ELSE st

fetchDataTimeout(st, skipMountedCheck, mounted) ==
  IF skipMountedCheck \/ mounted
  THEN [st EXCEPT !.error = "timeout", !.loading = FALSE, !.wrote = TRUE]
  ELSE st

\* ------------------------------------------------------------------ slots
FreeReqs(rq) == {r \in 1..MaxRefetch : rq[r].state = "none"}
FreeSocks(sk, ref) ==
  {s \in 1..MaxSock : sk[s].state \in {"none", "closed"} /\ s # ref}
Lowest(S) == CHOOSE x \in S : \A y \in S : x <= y

LiveSocks(sk) == {s \in 1..MaxSock : sk[s].state \in {"connecting", "open"}}

\* wsRef.current holds a socket that is already closed (it failed)
DeadRef(sk, ref) == ref # NoSock /\ sk[ref].state = "closed"

\* variant of CloseSock: close() on a socket that is already closed opens it
CloseSock_Reopen(sk, s) ==
  IF s = NoSock THEN sk
  ELSE IF sk[s].state \in {"connecting", "open"}
  THEN [sk EXCEPT ![s] = ClosedSocket]
  ELSE IF sk[s].state = "closed"
  THEN [sk EXCEPT ![s].state = "open"]
  ELSE sk

\* variant of CloseSock: the socket is not closed
CloseSock_Noop(sk, s) == sk

\* WebSocket.close(): a socket that is connecting or open gets closed, a
\* closed one stays closed
CloseSock(sk, s) ==
  IF s # NoSock /\ sk[s].state \in {"connecting", "open"}
  THEN [sk EXCEPT ![s] = ClosedSocket]
  ELSE sk

\* state of the hook after construction
HookInit ==
  /\ phase = "init"
  /\ symbol = DefaultSymbol
  /\ interval = DefaultInterval
  /\ limit \in Limits
  /\ data = <<>>
  /\ loading = TRUE
  /\ error = "none"
  /\ rLoading = TRUE
  /\ rDataLen = 0
  /\ wsRef = NoSock
  /\ isMounted = TRUE
  /\ previousInterval = "null"
  /\ reqs = [r \in 0..MaxRefetch |-> NoRequest]
  /\ socks = [s \in 1..MaxSock |-> NoSocket]
  /\ dataSel = NoSel
  /\ last = [act |-> "Init", symbol |-> <<>>, interval |-> "none",
             wrote |-> FALSE, inb |-> NoCandle, closed |-> FALSE,
             reclosed |-> FALSE, prevLen |-> 0,
             prevLastTime |-> 0]

\* a socket of createKlineWebSocket right after new WebSocket(wsUrl)
StreamNew == [readyState |-> "connecting", arrived |-> <<>>, delivered |-> <<>>]

NoCall == [fn |-> "none"]

\* what the latest click or pointer move did (the price under the pointer,
\* the lines before it, the prices the hit test and onAddLine were called
\* with, the ids onLineClick was called with), cleared by the next gesture
\* on the page
NoFired ==
  [clicked |-> FALSE, raw |-> Null, before |-> <<>>, tested |-> {},
   lineClicked |-> {}, added |-> {}]

\* TradingChartModule after its first render: no lines, menu closed;
\* hoveredPriceRef.current is null and no click listener leaked
ModuleNew ==
  [lines |-> <<>>, nextId |-> 1, selected |-> 0, hovered |-> Null,
   stale |-> <<>>, fired |-> NoFired]

\* the hooks that throttle with requestAnimationFrame, each with its
\* rafIdRef; before their effects have run nothing is subscribed
RafHooks == {"useCrosshair", "useHoveredBarData", "useChartMouseInteraction"}
NoRaf == [active |-> FALSE, rafId |-> Null, pending |-> {}, ran |-> {}]
RafNew == [hook |-> [h \in RafHooks |-> NoRaf], events |-> 0, last |-> "none"]

Init ==
  /\ HookInit
  /\ stream = StreamNew
  /\ call = NoCall
  /\ ui = ModuleNew
  /\ raf = RafNew


\* --------------------------------------------------------------- commits
\* One commit of the component: render with the given props and the current
\* state, then the cleanups of the effects whose dependencies changed, then
\* their bodies (fetch effect first, WebSocket effect second), then the
\* reaction of the request the fetch cleanup aborted.  The WebSocket effect
\* body reads loading and data.length of this render, not what the fetch
\* effect body has just queued.
Commit(act, newSym, newItv) ==
  LET first     == phase = "init"
      fetchDeps == first \/ newSym # symbol \/ newItv # interval
      wsDeps    == fetchDeps \/ loading # rLoading \/ Len(data) # rDataLen
      vLoading  == loading
      vLen      == Len(data)
      \* cleanup of the fetch effect: isCancelled = true, clearTimeout, abort()
      cancelled == fetchDeps /\ reqs[EffSlot].state = "pending"
      reqs1     == IF cancelled THEN [reqs EXCEPT ![EffSlot] = NoRequest] ELSE reqs
      \* cleanup of the WebSocket effect: close and forget wsRef.current
      socks1    == IF wsDeps THEN CloseSock(socks, wsRef) ELSE socks
      wsRef1    == IF wsDeps THEN NoSock ELSE wsRef
      \* body of the fetch effect
      clear     == previousInterval # "null" /\ previousInterval # newItv
      st1       == IF fetchDeps /\ clear
                   THEN [St EXCEPT !.data = <<>>, !.error = "none", !.wrote = TRUE]
                   ELSE St
      valid     == SymbolIsValid[newSym]
      st2       == IF ~fetchDeps THEN st1
                   ELSE IF ~valid
                   THEN [st1 EXCEPT !.error = "validation", !.loading = FALSE,
                                    !.wrote = TRUE]
                   ELSE [st1 EXCEPT !.loading = TRUE, !.error = "none",
                                    !.wrote = TRUE]
      newReq    == fetchDeps /\ valid
      reqs2     == IF newReq
                   THEN [reqs1 EXCEPT ![EffSlot] =
                           [state |-> "pending", kind |-> "effect",
                            symbol |-> newSym, interval |-> newItv,
                            limit |-> calculatedLimit(limit, newItv)]]
                   ELSE reqs1
      \* body of the WebSocket effect
      connect   == /\ wsDeps
                   /\ ~(~enableWebSocket \/ ~valid \/ vLoading \/ vLen = 0)
      socks2    == IF connect THEN CloseSock(socks1, wsRef1) ELSE socks1
      s         == Lowest(FreeSocks(socks2, NoSock))
      socks3    == IF connect
                   THEN [socks2 EXCEPT ![s] =
                           [state |-> "connecting", symbol |-> newSym,
                            interval |-> newItv]]
                   ELSE socks2
      wsRef3    == IF connect THEN s ELSE wsRef1
      \* the aborted request rejects with AbortError
      st3       == IF cancelled THEN performFetchCatch(st2, "AbortError", TRUE)
                   ELSE st2
  IN  /\ connect => FreeSocks(socks2, NoSock) # {}
      /\ phase' = "mounted"
      /\ symbol' = newSym
      /\ interval' = newItv
      /\ data' = st3.data
      /\ loading' = st3.loading
      /\ error' = st3.error
      /\ rLoading' = vLoading
      /\ rDataLen' = vLen
      /\ wsRef' = wsRef3
      /\ previousInterval' = IF fetchDeps THEN newItv ELSE previousInterval
      /\ reqs' = reqs2
      /\ socks' = socks3
      /\ dataSel' = IF fetchDeps /\ clear THEN NoSel ELSE dataSel
      /\ last' = [Last(act, newSym, newItv, st3.wrote, NoCandle,
                        wsDeps /\ wsRef \in LiveSocks(socks))
                   EXCEPT !.reclosed = wsDeps /\ DeadRef(socks, wsRef)]
      /\ UNCHANGED << limit, isMounted >>

\* first commit after construction
Mount ==
  /\ phase = "init"
  /\ Commit("Mount", symbol, interval)
  /\ UNCHANGED auxVars

\* the host passes another symbol
ChangeSymbol(sym) ==
  /\ phase = "mounted"
  /\ sym # symbol
  /\ Commit("ChangeSymbol", sym, interval)
  /\ UNCHANGED auxVars

\* the host passes another interval
ChangeInterval(itv) ==
  /\ phase = "mounted"
  /\ itv # interval
  /\ Commit("ChangeInterval", symbol, itv)
  /\ UNCHANGED auxVars

\* re-render caused by a state update that changed loading or data.length
Rerender ==
  /\ phase = "mounted"
  /\ loading # rLoading \/ Len(data) # rDataLen
  /\ Commit("Rerender", symbol, interval)
  /\ UNCHANGED auxVars

\* the component unmounts: cleanups of the fetch effect, of the WebSocket
\* effect and of the unmount effect, in that order
Unmount ==
  LET cancelled == reqs[EffSlot].state = "pending"
      socks1    == CloseSock(socks, wsRef)
      wsRef1    == NoSock
      socks2    == CloseSock(socks1, wsRef1)
      st1       == IF cancelled THEN performFetchCatch(St, "AbortError", TRUE)
                   ELSE St
  IN  /\ phase = "mounted"
      /\ phase' = "unmounted"
      /\ isMounted' = FALSE
      /\ reqs' = IF cancelled THEN [reqs EXCEPT ![EffSlot] = NoRequest] ELSE reqs
      /\ socks' = socks2
      /\ wsRef' = wsRef1
      /\ data' = st1.data
      /\ loading' = st1.loading
      /\ error' = st1.error
      /\ last' = [Last("Unmount", symbol, interval, st1.wrote, NoCandle,
                        wsRef \in LiveSocks(socks))
                   EXCEPT !.reclosed = DeadRef(socks, wsRef)]
      /\ UNCHANGED << symbol, interval, limit, rLoading, rDataLen,
                      previousInterval, dataSel >>
      /\ UNCHANGED auxVars


\* -------------------------------------------------------------- requests
Settle(r) == [reqs EXCEPT ![r] = NoRequest]

\* fetchKlines resolves: success continuation of performFetch / fetchData
FetchSuccess(r, klines) ==
  LET rq == reqs[r]
      st == IF rq.kind = "effect"
            THEN performFetchThen(St, klines, FALSE, FALSE)
            ELSE fetchDataThen(St, klines, TRUE, isMounted)
  IN  /\ rq.state = "pending"
      /\ klines \in Responses(rq.limit)
      /\ data' = st.data
      /\ loading' = st.loading
      /\ error' = st.error
      /\ dataSel' = IF st.wrote THEN Sel(rq.symbol, rq.interval) ELSE dataSel
      /\ reqs' = Settle(r)
      /\ last' = Last("FetchSuccess", rq.symbol, rq.interval, st.wrote, NoCandle,
                       FALSE)
      /\ UNCHANGED << phase, symbol, interval, limit, rLoading, rDataLen,
                      wsRef, isMounted, previousInterval, socks >>
      /\ UNCHANGED auxVars

\* fetchKlines rejects with a network, upstream or empty-result error
FetchFailure(r, err) ==
  LET rq == reqs[r]
      st == IF rq.kind = "effect"
            THEN performFetchCatch(St, err, FALSE)
            ELSE fetchDataCatch(St, err, TRUE, isMounted)
  IN  /\ rq.state = "pending"
      /\ err \in FetchErrors
      /\ data' = st.data
      /\ loading' = st.loading
      /\ error' = st.error
      /\ reqs' = Settle(r)
      /\ last' = Last("FetchFailure", rq.symbol, rq.interval, st.wrote, NoCandle,
                       FALSE)
      /\ UNCHANGED << phase, symbol, interval, limit, rLoading, rDataLen,
                      wsRef, isMounted, previousInterval, socks, dataSel >>
      /\ UNCHANGED auxVars

\* the request timer fires: the callback aborts the request and sets the
\* timeout error, then the aborted fetch rejects with AbortError and the
\* catch block of the same function runs
FetchTimeout(r) ==
  LET rq == reqs[r]
      st == IF rq.kind = "effect"
            THEN performFetchCatch(performFetchTimeout(St, FALSE),
                                   "AbortError", FALSE)
            ELSE fetchDataCatch(fetchDataTimeout(St, TRUE, isMounted),
                                "AbortError", TRUE, isMounted)
  IN  /\ rq.state = "pending"
      /\ data' = st.data
      /\ loading' = st.loading
      /\ error' = st.error
      /\ reqs' = Settle(r)
      /\ last' = Last("FetchTimeout", rq.symbol, rq.interval, st.wrote, NoCandle,
                       FALSE)
      /\ UNCHANGED << phase, symbol, interval, limit, rLoading, rDataLen,
                      wsRef, isMounted, previousInterval, socks, dataSel >>
      /\ UNCHANGED auxVars

\* refetch(): setLoading(true), setError(null), then fetchData(true) up to
\* its first await
Refetch ==
  LET valid == SymbolIsValid[symbol]
      st0   == [St EXCEPT !.loading = TRUE, !.error = "none", !.wrote = TRUE]
      st1   == IF ~valid
               THEN [st0 EXCEPT !.error = "validation", !.loading = FALSE]
               ELSE [st0 EXCEPT !.loading = TRUE, !.error = "none"]
      r     == Lowest(FreeReqs(reqs))
  IN  /\ phase = "mounted"
      /\ valid => FreeReqs(reqs) # {}
      /\ data' = st1.data
      /\ loading' = st1.loading
      /\ error' = st1.error
      /\ reqs' = IF valid
                 THEN [reqs EXCEPT ![r] =
                         [state |-> "pending", kind |-> "refetch",
                          symbol |-> symbol, interval |-> interval,
                          limit |-> calculatedLimit(limit, interval)]]
                 ELSE reqs
      /\ last' = Last("Refetch", symbol, interval, st1.wrote, NoCandle, FALSE)
      /\ UNCHANGED << phase, symbol, interval, limit, rLoading, rDataLen,
                      wsRef, isMounted, previousInterval, socks,
                      dataSel >>
      /\ UNCHANGED auxVars

\* ------------------------------------------------------------- WebSocket
\* the connection is established
WsOpen(s) ==
  /\ socks[s].state = "connecting"
  /\ socks' = [socks EXCEPT ![s].state = "open"]
  /\ last' = Last("WsOpen", socks[s].symbol, socks[s].interval, FALSE, NoCandle,
                   FALSE)
  /\ UNCHANGED << phase, symbol, interval, limit, data, loading, error,
                  rLoading, rDataLen, wsRef, isMounted, previousInterval,
                  reqs, dataSel >>
  /\ UNCHANGED auxVars

\* a kline message arrives on an open socket: onMessage callback
WsMessage(s, newKline) ==
  LET sk     == socks[s]
      lim    == calculatedLimit(limit, sk.interval)
      merged == MergeKline(data, newKline, lim)
  IN  /\ sk.state = "open"
      /\ newKline \in Candles
      \* exploration bound, applied only where the limit itself is larger
      /\ (isMounted /\ lim > MaxLen) => Len(merged) <= MaxLen
      /\ data' = IF isMounted THEN merged ELSE data
      /\ last' = Last("WsMessage", sk.symbol, sk.interval, isMounted, newKline,
                       FALSE)
      /\ UNCHANGED << phase, symbol, interval, limit, loading, error,
                      rLoading, rDataLen, wsRef, isMounted, previousInterval,
                      reqs, socks, dataSel >>
      /\ UNCHANGED auxVars

\* variant of wsOnError: a stream error is stored as the hook's error
wsOnError_SetError(st) ==
  [st EXCEPT !.error = "upstream", !.wrote = TRUE]

\* the onError callback the hook passes to createKlineWebSocket: it logs a
\* warning and calls no setter
wsOnError(st) == st

\* the connection fails: ws.onerror logs and calls onError, then the browser
\* closes the socket (ws.onclose only logs)
WsFail(s) ==
  LET st == wsOnError(St)
  IN  /\ socks[s].state \in {"connecting", "open"}
      /\ socks' = [socks EXCEPT ![s] = ClosedSocket]
      /\ data' = st.data
      /\ loading' = st.loading
      /\ error' = st.error
      /\ last' = Last("WsFail", socks[s].symbol, socks[s].interval, st.wrote,
                       NoCandle, FALSE)
      /\ UNCHANGED << phase, symbol, interval, limit,
                      rLoading, rDataLen, wsRef, isMounted, previousInterval,
                      reqs, dataSel >>
      /\ UNCHANGED auxVars

Next ==
  \/ Mount
  \/ \E sym \in Symbols : ChangeSymbol(sym)
  \/ \E itv \in Intervals : ChangeInterval(itv)
  \/ Rerender
  \/ Unmount
  \/ \E r \in 0..MaxRefetch : \E klines \in AllResponses : FetchSuccess(r, klines)
  \/ \E r \in 0..MaxRefetch : \E err \in FetchErrors : FetchFailure(r, err)
  \/ \E r \in 0..MaxRefetch : FetchTimeout(r)
  \/ Refetch
  \/ \E s \in 1..MaxSock : WsOpen(s)
  \/ \E s \in 1..MaxSock : \E c \in Candles \ HistCandles : WsMessage(s, c)
  \/ \E s \in 1..MaxSock : WsFail(s)

\* the host passes the explicit limit option, so that the series fills up and
\* the oldest candle is evicted
InitSmall == Init /\ limit = SmallLimit

Spec == InitSmall /\ [][Next]_vars

TypeOK ==
  /\ phase \in {"init", "mounted", "unmounted"}
  /\ symbol \in Symbols
  /\ interval \in Intervals
  /\ limit \in Limits
  /\ loading \in BOOLEAN
  /\ rLoading \in BOOLEAN
  /\ isMounted \in BOOLEAN
  /\ error \in {"none", "validation", "timeout", "cancelledOrTimedOut"} \cup FetchErrors
  /\ wsRef \in 0..MaxSock
  /\ \A i \in 1..Len(data) : data[i] \in Candles


\* ===================================================================
\* createKlineWebSocket on its own: what ws.onmessage does with each
\* inbound message (src/src/features/trading/services/binance.ts)
\* ===================================================================
MaxMsgs == 2      \* messages arriving on the socket

DigitChars == <<"0", "1", "2", "3", "4", "5", "6", "7", "8", "9">>
DigitOf == [c \in Range(DigitChars) |->
              (CHOOSE k \in 1..10 : DigitChars[k] = c) - 1]

RECURSIVE DigitPrefix(_, _)
\* value of the longest prefix of digits of s, taken from acc
DigitPrefix(s, acc) ==
  IF s = <<>> \/ Head(s) \notin DOMAIN DigitOf THEN acc
  ELSE DigitPrefix(Tail(s), 10 * acc + DigitOf[Head(s)])

\* parseFloat on a string of characters (absent and empty both give NaN):
\* the number the leading digits spell, NaN when there is no leading digit
parseFloat(s) ==
  IF s = <<>> \/ Head(s) \notin DOMAIN DigitOf THEN NaN
  ELSE DigitPrefix(s, 0)

\* Math.floor(t / 1000) for a non-negative number of milliseconds or an
\* absent field
FloorSeconds(t) == IF t = Undefined THEN NaN ELSE t \div 1000

\* event.data of a message event.  kind "text": not JSON; "null": the JSON
\* value null; "object": a JSON object, with or without the member k; t is
\* k.t (a number of milliseconds, or absent), c is k.c (a string, <<>> when
\* absent)
MsgTimes == {Undefined, 1000, 1999, 2000}
MsgCloses == { <<>>, <<"0">>, <<"1">>, <<"a">>, <<"1", "a">> }
NoK == [kind |-> "object", hasK |-> FALSE, t |-> Undefined, c |-> <<>>]
Messages ==
  { [kind |-> "text", hasK |-> FALSE, t |-> Undefined, c |-> <<>>],
    [kind |-> "null", hasK |-> FALSE, t |-> Undefined, c |-> <<>>],
    NoK }
  \cup [kind : {"object"}, hasK : {TRUE}, t : MsgTimes, c : MsgCloses]

\* ws.onmessage: JSON.parse throws on text that is not JSON, data.k throws
\* on null, and both are caught and logged; an object without k is skipped;
\* any other object gives one call of onMessage.  out is the sequence of
\* klines onMessage has been called with.
onmessage(out, m) ==
  IF m.kind = "text" THEN out
  ELSE IF m.kind = "null" THEN out
  ELSE IF ~m.hasK THEN out
  ELSE Append(out, [time |-> FloorSeconds(m.t), close |-> parseFloat(m.c)])

\* ws.onopen
StreamOpen ==
  /\ stream.readyState = "connecting"
  /\ stream' = [stream EXCEPT !.readyState = "open"]
  /\ UNCHANGED << hookVars, call, ui, raf >>

\* a message event on the open socket
StreamMessage(m) ==
  /\ stream.readyState = "open"
  /\ Len(stream.arrived) < MaxMsgs
  /\ stream' = [stream EXCEPT !.arrived = Append(@, m),
                              !.delivered = onmessage(@, m)]
  /\ UNCHANGED << hookVars, call, ui, raf >>

\* the consumer calls close() on the handle, or the connection ends
StreamClose ==
  /\ stream.readyState \in {"connecting", "open"}
  /\ stream' = [stream EXCEPT !.readyState = "closed"]
  /\ UNCHANGED << hookVars, call, ui, raf >>

StreamNext ==
  \/ StreamOpen
  \/ \E m \in Messages : StreamMessage(m)
  \/ StreamClose

SpecStream == Init /\ [][StreamNext]_vars

\* ===================================================================
\* Functions seen on their own: each action is one call, with arguments
\* drawn from the sets below, and records what the call returned
\* ===================================================================
MaxRun == 11      \* longest run of one character before the suffix

Run(n, ch) == [i \in 1..n |-> ch]

\* arguments of validateSymbol: the five symbols the documentation names,
\* and runs of a letter, a digit or a dash of every length around the
\* bounds of the pattern, followed by the suffix, a part of it, or more
NamedSymbols ==
  { <<"B","T","C","U","S","D","T">>,
    <<"b","t","c","u","s","d","t">>,
    <<"B","T","C">>,
    <<"T","O","O","L","O","N","G","S","Y","M","B","O","L","U","S","D","T">>,
    <<"B","T","C","-","U","S","D","T">> }
RunChars == {"A", "z", "1", "-"}
Suffixes ==
  { <<"U","S","D","T">>, <<"u","s","d","t">>, <<"U","S","D">>, <<>>,
    <<"U","S","D","T","X">> }
SymbolInputs ==
  NamedSymbols \cup
  { Run(n, ch) \o suf : n \in 0..MaxRun, ch \in RunChars, suf \in Suffixes }

\* the limit option of the hook: absent, or a number up to one more than
\* the largest entry of INTERVAL_MAX_LIMITS
LimitInputs == {Undefined, 1, DefaultLimit, IntervalMaxLimit, IntervalMaxLimit + 1}

\* ---- line hit-testing (useChartLineInteraction.ts)
MaxPrice == 4     \* prices are 1..MaxPrice
MaxLines == 2     \* longest list of horizontal lines

HOVER_TOLERANCE_PX == 5
CLICK_TOLERANCE_PX == 10

Prices == 1..MaxPrice

\* pixels per unit of price on the price scale; 0 stands for a price scale
\* that is not laid out, for which priceToCoordinate returns null
Scales == {0, 1, 2, 5, 6, 11}

\* HorizontalLineConfig, as far as the hit test reads it; ids are 1, 2, ...
NoLine == [id |-> 0, price |-> 0]
LineLists ==
  UNION { [1..n -> Prices] : n \in 0..MaxLines }
LinesOf(ps) == [i \in 1..Len(ps) |-> [id |-> i, price |-> ps[i]]]

\* series.priceToCoordinate(price)
priceToCoordinate(scale, price) ==
  IF scale = 0 THEN Null ELSE (MaxPrice - price) * scale

Abs(x) == IF x < 0 THEN -x ELSE x

\* priceToPixel(chart, series, price1, price2)
priceToPixel(scale, price1, price2) ==
  LET coord1 == priceToCoordinate(scale, price1)
      coord2 == priceToCoordinate(scale, price2)
  IN  IF coord1 = Null \/ coord2 = Null THEN Null ELSE Abs(coord1 - coord2)

RECURSIVE ClosestLoop_LastWithin(_, _, _, _, _, _)
\* variant of the loop: a line within the tolerance replaces the one found
\* so far whether or not it is nearer
ClosestLoop_LastWithin(lines, scale, price, tol, closestLine, minPixelDistance) ==
  IF lines = <<>> THEN closestLine
  ELSE LET line == Head(lines)
           pixelDistance == priceToPixel(scale, line.price, price)
       IN  IF pixelDistance # Null /\ pixelDistance <= tol
           THEN ClosestLoop_LastWithin(Tail(lines), scale, price, tol,
                                        line, pixelDistance)
           ELSE ClosestLoop_LastWithin(Tail(lines), scale, price, tol,
                                        closestLine, minPixelDistance)

RECURSIVE ClosestLoop(_, _, _, _, _, _)
\* for (const line of horizontalLines) { ... } of findClosestLineForHover
\* and findClosestLineForClick, which differ in the tolerance only
ClosestLoop(lines, scale, price, tol, closestLine, minPixelDistance) ==
  IF lines = <<>> THEN closestLine
  ELSE LET line == Head(lines)
           pixelDistance == priceToPixel(scale, line.price, price)
       IN  IF /\ pixelDistance # Null
              /\ pixelDistance <= tol
              /\ pixelDistance < minPixelDistance
           THEN ClosestLoop(Tail(lines), scale, price, tol, line, pixelDistance)
           ELSE ClosestLoop(Tail(lines), scale, price, tol,
                            closestLine, minPixelDistance)

findClosestLineForHover(scale, horizontalLines, hoveredPrice) ==
  IF Len(horizontalLines) = 0 THEN NoLine
  ELSE ClosestLoop(horizontalLines, scale, hoveredPrice, HOVER_TOLERANCE_PX,
                   NoLine, Infinity)

findClosestLineForClick(scale, horizontalLines, clickedPrice) ==
  IF Len(horizontalLines) = 0 THEN NoLine
  ELSE ClosestLoop(horizontalLines, scale, clickedPrice, CLICK_TOLERANCE_PX,
                   NoLine, Infinity)

\* ---- the indicator functions (src/src/features/trading/utils/indicators.ts)
MaxSeries == 4    \* longest candle series given to an indicator function

\* A number of the indicator arithmetic: the fraction n / d in lowest terms
\* with d > 0, or NaN, written with d = 0.  The closes of a series are
\* whole numbers or NaN (what parseFloat gives for text without a leading
\* digit).
NaNValue == [n |-> 0, d |-> 0]

RECURSIVE GCD(_, _)
GCD(a, b) == IF b = 0 THEN a ELSE GCD(b, a % b)

\* n / d for whole numbers n and d; 0 / 0 and x / 0 are not whole numbers
\* of the model (0 / 0 is NaN in the program)
Frac(n, d) ==
  IF d = 0 THEN NaNValue
  ELSE LET sn == IF d < 0 THEN 0 - n ELSE n
           sd == IF d < 0 THEN 0 - d ELSE d
           g == GCD(IF sn < 0 THEN 0 - sn ELSE sn, sd)
       IN  [n |-> sn \div g, d |-> sd \div g]

Num(c) == IF c = NaN THEN NaNValue ELSE [n |-> c, d |-> 1]
IsNaN(x) == x.d = 0

\* x + y, x - y, x * y, x / y: NaN when an operand is NaN
Plus(x, y) ==
  IF IsNaN(x) \/ IsNaN(y) THEN NaNValue
  ELSE Frac(x.n * y.d + y.n * x.d, x.d * y.d)
Minus(x, y) ==
  IF IsNaN(x) \/ IsNaN(y) THEN NaNValue
  ELSE Frac(x.n * y.d - y.n * x.d, x.d * y.d)
Times(x, y) ==
  IF IsNaN(x) \/ IsNaN(y) THEN NaNValue ELSE Frac(x.n * y.n, x.d * y.d)
Over(x, y) ==
  IF IsNaN(x) \/ IsNaN(y) THEN NaNValue ELSE Frac(x.n * y.d, x.d * y.n)

\* what a call gives: the series it returned, or the TypeError it threw by
\* reading a member of data[i] for an i outside the series
Returned(out) == [threw |-> FALSE, out |-> out]
TypeError == [threw |-> TRUE, out |-> <<>>]

\* bars is the argument data, a TLA+ sequence indexed from 1: data[i] of
\* the program is bars[i + 1].

RECURSIVE SumCloses(_, _, _, _)
\* for (j = first; j <= end; j++) sum += data[j].close
SumCloses(bars, first, end, sum) ==
  IF first > end THEN sum
  ELSE SumCloses(bars, first + 1, end, Plus(sum, Num(bars[first + 1].close)))

RECURSIVE MALoop(_, _, _, _)
\* the loop of calculateMA from i on (period - 1 <= i, so the window
\* i - period + 1 .. i lies in the series for period >= 1)
MALoop(bars, period, i, result) ==
  IF i >= Len(bars) THEN result
  ELSE MALoop(bars, period, i + 1,
              Append(result,
                     [time |-> bars[i + 1].time,
                      value |-> Over(SumCloses(bars, i - period + 1, i, Num(0)),
                                     Num(period))]))

\* variant of calculateMA: the window of a point starts one candle late
calculateMA_ShortWindow(bars, period) ==
  IF Len(bars) < period THEN Returned(<<>>)
  ELSE Returned([k \in 1..(Len(bars) - period + 1) |->
                   [time |-> bars[k + period - 1].time,
                    value |-> Over(SumCloses(bars, k, k + period - 2, Num(0)),
                                   Num(period))]])

\* calculateMA(bars, period, 'close') for a whole period >= 1
calculateMA(bars, period) ==
  IF Len(bars) < period THEN Returned(<<>>)
  ELSE Returned(MALoop(bars, period, period - 1, <<>>))

RECURSIVE EMALoop_SeedKept(_, _, _, _, _)
\* variant of EMALoop: every later point is computed from the seed
EMALoop_SeedKept(bars, multiplier, i, ema, result) ==
  IF i >= Len(bars) THEN result
  ELSE LET next == Plus(Times(Minus(Num(bars[i + 1].close), ema), multiplier),
                        ema)
       IN  EMALoop_SeedKept(bars, multiplier, i + 1, ema,
                   Append(result, [time |-> bars[i + 1].time, value |-> next]))

RECURSIVE EMALoop(_, _, _, _, _)
\* the second loop of calculateEMA from i on
EMALoop(bars, multiplier, i, ema, result) ==
  IF i >= Len(bars) THEN result
  ELSE LET next == Plus(Times(Minus(Num(bars[i + 1].close), ema), multiplier),
                        ema)
       IN  EMALoop(bars, multiplier, i + 1, next,
                   Append(result, [time |-> bars[i + 1].time, value |-> next]))

\* what calculateEMA does after its first line: the seed loop reads
\* data[0 .. period - 1], which throws when the series is shorter
EMABody(bars, period) ==
  IF period > Len(bars) THEN TypeError
  ELSE LET ema == Over(SumCloses(bars, 0, period - 1, Num(0)), Num(period))
       IN  Returned(EMALoop(bars, Frac(2, period + 1), period, ema,
                            << [time |-> bars[period].time, value |-> ema] >>))

\* calculateEMA(bars, period, 'close') for a whole period >= 1
calculateEMA(bars, period) ==
  IF Len(bars) < period THEN Returned(<<>>) ELSE EMABody(bars, period)

\* changes[i] of calculateRSI: data[i + 1].close - data[i].close
Change(bars, i) == Minus(Num(bars[i + 2].close), Num(bars[i + 1].close))

\* change > 0, change < 0 and Math.abs(change); a comparison with NaN is
\* false
IsGain(c) == ~IsNaN(c) /\ c.n > 0
IsLoss(c) == ~IsNaN(c) /\ c.n < 0
MathAbs(c) == IF IsLoss(c) THEN Minus(Num(0), c) ELSE c

RECURSIVE RSISeed(_, _, _, _, _)
\* the loop over the first period changes: avg is << avgGain, avgLoss >>
RSISeed(bars, period, i, avgGain, avgLoss) ==
  IF i >= period THEN << avgGain, avgLoss >>
  ELSE IF IsGain(Change(bars, i))
       THEN RSISeed(bars, period, i + 1, Plus(avgGain, Change(bars, i)),
                    avgLoss)
       ELSE RSISeed(bars, period, i + 1, avgGain,
                    Plus(avgLoss, MathAbs(Change(bars, i))))

\* variant of RSIValue: the test for a zero average loss is missing, and
\* avgGain / 0 gives Infinity, 100 / Infinity gives 0, except 0 / 0
RSIValue_NoZeroTest(avgGain, avgLoss) ==
  IF ~IsNaN(avgLoss) /\ avgLoss.n = 0
  THEN (IF ~IsNaN(avgGain) /\ avgGain.n > 0 THEN Num(100) ELSE NaNValue)
  ELSE Minus(Num(100),
             Over(Num(100), Plus(Num(1), Over(avgGain, avgLoss))))

\* the value pushed for avgGain and avgLoss (avgLoss === 0 is false for NaN)
RSIValue(avgGain, avgLoss) ==
  IF ~IsNaN(avgLoss) /\ avgLoss.n = 0 THEN Num(100)
  ELSE Minus(Num(100),
             Over(Num(100), Plus(Num(1), Over(avgGain, avgLoss))))

RECURSIVE RSILoop(_, _, _, _, _, _)
\* the loop with Wilder's smoothing from i on (changes.length is
\* data.length - 1)
RSILoop(bars, period, i, avgGain, avgLoss, result) ==
  IF i >= Len(bars) - 1 THEN result
  ELSE LET change == Change(bars, i)
           gain == IF IsGain(change) THEN change ELSE Num(0)
           loss == IF IsLoss(change) THEN MathAbs(change) ELSE Num(0)
           g == Over(Plus(Times(avgGain, Num(period - 1)), gain), Num(period))
           l == Over(Plus(Times(avgLoss, Num(period - 1)), loss), Num(period))
       IN  RSILoop(bars, period, i + 1, g, l,
                   Append(result, [time |-> bars[i + 2].time,
                                   value |-> RSIValue(g, l)]))

\* what calculateRSI does after its first line: changes[i] beyond the
\* series is undefined, which counts as a loss of NaN, and data[period].time
\* throws when data[period] is beyond the series
RSIBody(bars, period) ==
  IF period >= Len(bars) THEN TypeError
  ELSE LET sums == RSISeed(bars, period, 0, Num(0), Num(0))
           avgGain == Over(sums[1], Num(period))
           avgLoss == Over(sums[2], Num(period))
       IN  Returned(RSILoop(bars, period, period, avgGain, avgLoss,
                            << [time |-> bars[period + 1].time,
                                value |-> RSIValue(avgGain, avgLoss)] >>))

\* variant of calculateRSI: a series one candle short is let through
calculateRSI_GuardByPeriod(bars, period) ==
  IF Len(bars) < period THEN Returned(<<>>) ELSE RSIBody(bars, period)

\* calculateRSI(bars, period) for a whole period >= 1
calculateRSI(bars, period) ==
  IF Len(bars) < period + 1 THEN Returned(<<>>) ELSE RSIBody(bars, period)

\* the period calculateRSI is given when the config has none
DefaultRSIPeriod == 14

\* variant of calculateIndicator: only an absent period gets the default
calculateIndicator_ZeroKept(bars, config) ==
  CASE config.type = "MA" -> calculateMA(bars, config.period)
    [] config.type = "EMA" -> calculateEMA(bars, config.period)
    [] config.type = "RSI" ->
         calculateRSI(bars, IF config.period = Undefined
                            THEN DefaultRSIPeriod ELSE config.period)
    [] OTHER -> Returned(<<>>)

\* calculateIndicator(data, config); config.period || 14 is 14 for an
\* absent period and for 0
calculateIndicator(bars, config) ==
  CASE config.type = "MA" -> calculateMA(bars, config.period)
    [] config.type = "EMA" -> calculateEMA(bars, config.period)
    [] config.type = "RSI" ->
         calculateRSI(bars, IF config.period \in {Undefined, 0}
                            THEN DefaultRSIPeriod ELSE config.period)
    [] OTHER -> Returned(<<>>)

\* ---- the two normalisations of a wire bar (services/binance.ts)
\* raw is a row of the REST response: << open time in ms, open, high, low,
\* close, volume >>, the last five as text

\* variant of transformKline: the seconds are rounded, not floored
transformKline_Round(raw) ==
  [time |-> FloorSeconds(raw[1] + 500), open |-> parseFloat(raw[2]),
   high |-> parseFloat(raw[3]), low |-> parseFloat(raw[4]),
   close |-> parseFloat(raw[5]), volume |-> parseFloat(raw[6])]

\* transformKline(raw)
transformKline(raw) ==
  [time |-> FloorSeconds(raw[1]), open |-> parseFloat(raw[2]),
   high |-> parseFloat(raw[3]), low |-> parseFloat(raw[4]),
   close |-> parseFloat(raw[5]), volume |-> parseFloat(raw[6])]

\* the kline ws.onmessage builds from data.k, all six fields of it
messageKline(k) ==
  [time |-> FloorSeconds(k.t), open |-> parseFloat(k.o),
   high |-> parseFloat(k.h), low |-> parseFloat(k.l),
   close |-> parseFloat(k.c), volume |-> parseFloat(k.v)]

\* ---- findBarByTime of useHoveredBarData (src/unnamed/part_006)
RECURSIVE BarSearch_NoFallback(_, _, _, _, _)
\* variant of BarSearch: without the closest bar after the loop
BarSearch_NoFallback(bars, time, left, right, steps) ==
  IF left > right
  THEN [bar |-> NoCandle, steps |-> steps]
  ELSE LET mid == (left + right) \div 2
           midTime == bars[mid + 1].time
       IN  IF midTime = time THEN [bar |-> bars[mid + 1], steps |-> steps + 1]
           ELSE IF midTime < time
                THEN BarSearch_NoFallback(bars, time, mid + 1, right, steps + 1)
                ELSE BarSearch_NoFallback(bars, time, left, mid - 1, steps + 1)

RECURSIVE BarSearch(_, _, _, _, _)
\* the while loop and what follows it; steps counts the passes through the
\* loop, NoCandle stands for null
BarSearch(bars, time, left, right, steps) ==
  IF left > right
  THEN [bar |-> IF right >= 0 /\ right < Len(bars) THEN bars[right + 1]
                ELSE NoCandle,
        steps |-> steps]
  ELSE LET mid == (left + right) \div 2
           midTime == bars[mid + 1].time
       IN  IF midTime = time THEN [bar |-> bars[mid + 1], steps |-> steps + 1]
           ELSE IF midTime < time
                THEN BarSearch(bars, time, mid + 1, right, steps + 1)
                ELSE BarSearch(bars, time, left, mid - 1, steps + 1)

\* findBarByTime(data, time)
findBarByTime(bars, time) ==
  IF Len(bars) = 0 THEN [bar |-> NoCandle, steps |-> 0]
  ELSE BarSearch(bars, time, 0, Len(bars) - 1, 0)

\* ---- the arguments of the calls
\* the candles of a series with the closes cs, one minute apart
KlinesOf(cs) == [i \in 1..Len(cs) |-> [time |-> 60 * i, close |-> cs[i]]]

\* a series long enough for the default period of the RSI
LongSeries ==
  KlinesOf([i \in 1..(DefaultRSIPeriod + 2) |-> ((i * i) % 5) + 1])

IndicatorConfigs ==
  [type : {"MA", "EMA"}, period : {1, 2}]
  \cup [type : {"RSI"}, period : {Undefined, 0, 1, 2}]
  \cup [type : {"MACD", "BB"}, period : {Undefined, 2}]

\* candles with the times ts (findBarByTime reads nothing else)
BarsAt(ts) == [i \in 1..Len(ts) |-> [time |-> ts[i], close |-> 0]]

\* ---- the calls
PureInputs ==
  LET \* closes of the candles given to the indicator functions, and the
      \* whole periods from 1 to one above the longest series
      CloseLists == UNION { [1..n -> {1, 2, 4, NaN}] : n \in 0..MaxSeries }
      Periods    == 1..(MaxSeries + 1)
      \* a bar on the wire: open time in ms and five texts
      WireTexts  == { <<"1">>, <<"2">>, <<"a">> }
      WireTimes  == {0, 999, 1000, 1499, 1500, 1999, 2000}
      \* times of the candles findBarByTime searches, in any order
      TimeLists  == UNION { [1..n -> 1..5] : n \in 0..MaxSeries }
  IN
  { [fn |-> "validateSymbol", done |-> FALSE, symbol |-> sym] :
      sym \in SymbolInputs }
  \cup
  { [fn |-> "fetchKlines", done |-> FALSE, limit |-> lim, interval |-> itv] :
      lim \in LimitInputs, itv \in KnownIntervals }
  \cup
  { [fn |-> fn, done |-> FALSE, scale |-> sc, lines |-> LinesOf(ps),
     price |-> pr] :
      fn \in {"findClosestLineForHover", "findClosestLineForClick"},
      sc \in Scales, ps \in LineLists, pr \in Prices }
  \cup
  { [fn |-> fn, done |-> FALSE, bars |-> KlinesOf(cs), period |-> p] :
      fn \in {"calculateMA", "calculateEMA", "calculateRSI"},
      cs \in CloseLists, p \in Periods }
  \cup
  { [fn |-> "calculateIndicator", done |-> FALSE, bars |-> bs, config |-> cf] :
      bs \in {KlinesOf(cs) : cs \in {c \in CloseLists : Len(c) <= 3}},
      cf \in IndicatorConfigs }
  \cup
  { [fn |-> "calculateIndicator", done |-> FALSE, bars |-> LongSeries,
     config |-> cf] :
      cf \in {c \in IndicatorConfigs : c.period \in {Undefined, 0}} }
  \cup
  { [fn |-> "transformKline", done |-> FALSE,
     raw |-> << t, o, h, l, c, v >>] :
      t \in WireTimes, o \in WireTexts, h \in WireTexts, l \in WireTexts,
      c \in WireTexts, v \in WireTexts }
  \cup
  { [fn |-> "findBarByTime", done |-> FALSE, bars |-> BarsAt(ts), time |-> t] :
      ts \in TimeLists, t \in 0..6 }

InitPure ==
  /\ HookInit
  /\ stream = StreamNew
  /\ call \in PureInputs
  /\ ui = ModuleNew
  /\ raf = RafNew

\* validateSymbol(symbol)
CallValidateSymbol ==
  /\ call.fn = "validateSymbol" /\ ~call.done
  /\ call' = [fn |-> call.fn, done |-> TRUE, symbol |-> call.symbol,
              result |-> validateSymbol(call.symbol)]
  /\ UNCHANGED << hookVars, stream, ui, raf >>

\* performFetch / fetchData with a valid symbol: the limit that reaches
\* fetchKlines, which writes it into the request URL as it is
CallFetchKlines ==
  /\ call.fn = "fetchKlines" /\ ~call.done
  /\ call' = [fn |-> call.fn, done |-> TRUE, limit |-> call.limit,
              interval |-> call.interval,
              sent |-> calculatedLimit(call.limit, call.interval)]
  /\ UNCHANGED << hookVars, stream, ui, raf >>

\* findClosestLineForHover / findClosestLineForClick
CallFindClosestLine ==
  /\ call.fn \in {"findClosestLineForHover", "findClosestLineForClick"}
  /\ ~call.done
  /\ call' = [fn |-> call.fn, done |-> TRUE, scale |-> call.scale,
              lines |-> call.lines, price |-> call.price,
              result |-> IF call.fn = "findClosestLineForHover"
                         THEN findClosestLineForHover(call.scale, call.lines,
                                                      call.price)
                         ELSE findClosestLineForClick(call.scale, call.lines,
                                                      call.price)]
  /\ UNCHANGED << hookVars, stream, ui, raf >>

\* calculateMA(data, period)
CallCalculateMA ==
  /\ call.fn = "calculateMA" /\ ~call.done
  /\ call' = [fn |-> call.fn, done |-> TRUE, bars |-> call.bars,
              period |-> call.period,
              result |-> calculateMA(call.bars, call.period)]
  /\ UNCHANGED << hookVars, stream, ui, raf >>

\* calculateEMA(data, period)
CallCalculateEMA ==
  /\ call.fn = "calculateEMA" /\ ~call.done
  /\ call' = [fn |-> call.fn, done |-> TRUE, bars |-> call.bars,
              period |-> call.period,
              result |-> calculateEMA(call.bars, call.period)]
  /\ UNCHANGED << hookVars, stream, ui, raf >>

\* calculateRSI(data, period)
CallCalculateRSI ==
  /\ call.fn = "calculateRSI" /\ ~call.done
  /\ call' = [fn |-> call.fn, done |-> TRUE, bars |-> call.bars,
              period |-> call.period,
              result |-> calculateRSI(call.bars, call.period)]
  /\ UNCHANGED << hookVars, stream, ui, raf >>

\* calculateIndicator(data, config)
CallCalculateIndicator ==
  /\ call.fn = "calculateIndicator" /\ ~call.done
  /\ call' = [fn |-> call.fn, done |-> TRUE, bars |-> call.bars,
              config |-> call.config,
              result |-> calculateIndicator(call.bars, call.config)]
  /\ UNCHANGED << hookVars, stream, ui, raf >>

\* one bar normalised both ways: as a row of the REST response by
\* transformKline, as data.k of a stream message by ws.onmessage; merged is
\* the series the stream update leaves when the bar was the only one loaded
CallTransformKline ==
  /\ call.fn = "transformKline" /\ ~call.done
  /\ LET rest == transformKline(call.raw)
         live == messageKline([t |-> call.raw[1], o |-> call.raw[2],
                               h |-> call.raw[3], l |-> call.raw[4],
                               c |-> call.raw[5], v |-> call.raw[6]])
     IN  call' = [fn |-> call.fn, done |-> TRUE, raw |-> call.raw,
                  rest |-> rest, live |-> live,
                  merged |-> MergeKline(<< rest >>, live, DefaultLimit)]
  /\ UNCHANGED << hookVars, stream, ui, raf >>

\* findBarByTime(data, time)
CallFindBarByTime ==
  /\ call.fn = "findBarByTime" /\ ~call.done
  /\ call' = [fn |-> call.fn, done |-> TRUE, bars |-> call.bars,
              time |-> call.time,
              result |-> findBarByTime(call.bars, call.time)]
  /\ UNCHANGED << hookVars, stream, ui, raf >>

PureNext ==
  \/ CallValidateSymbol
  \/ CallFetchKlines
  \/ CallFindClosestLine
  \/ CallCalculateMA
  \/ CallCalculateEMA
  \/ CallCalculateRSI
  \/ CallCalculateIndicator
  \/ CallTransformKline
  \/ CallFindBarByTime

SpecPure == InitPure /\ [][PureNext]_vars

\* ===================================================================
\* TradingChartModule and the click handling of the chart
\* (components/TradingChartModule.tsx, components/ErrorOverlay.tsx,
\* hooks/useChartLineInteraction.ts, useChartMouseInteraction)
\* ===================================================================
MaxIds == 2           \* horizontal lines created in all

NumPresetColors == 8  \* PRESET_LINE_COLORS.length
PixelsPerPrice == 6   \* zoom of the price scale while the chart has data
MenuColor == 7        \* the color picked in the context menu

\* what series.coordinateToPrice can return for the row under the pointer
RawPrices == {1, MaxPrice} \cup {Null, NaN, Infinity, 0}

\* isFinite(x) for a number
isFinite(x) == x \notin {NaN, Infinity, -Infinity}

\* getPriceFromMouseY of useChartLineInteraction; raw is what
\* series.coordinateToPrice returns for the row (null too when the row is
\* outside the price pane)
getPriceFromMouseY(raw) ==
  IF raw # Null /\ isFinite(raw) /\ raw > 0 THEN raw ELSE Null

\* calculatePriceFromMouseY of useChartMouseInteraction
calculatePriceFromMouseY(raw) ==
  IF raw # Null /\ isFinite(raw) /\ raw > 0 THEN raw ELSE Null

\* ---- the handlers of TradingChartModule, on its state
\* (isMenuOpen is set and cleared together with selectedLine, which is
\* kept as the id of the line, 0 for null)
ModuleState(itv, u) ==
  [interval |-> itv, horizontalLines |-> u.lines, selectedLine |-> u.selected]

handleAddLineAtPrice(m, price, id) ==
  [m EXCEPT !.horizontalLines =
     Append(@, [id |-> id, price |-> price,
                color |-> Len(@) % NumPresetColors])]

\* variant of handleIntervalChange: the lines are dropped with the candles
handleIntervalChange_DropLines(m, newInterval) ==
  [m EXCEPT !.interval = newInterval, !.horizontalLines = <<>>]

handleIntervalChange(m, newInterval) ==
  [m EXCEPT !.interval = newInterval]

handleLineClick(m, lineId) ==
  IF \E i \in 1..Len(m.horizontalLines) : m.horizontalLines[i].id = lineId
  THEN [m EXCEPT !.selectedLine = lineId]
  ELSE m

handleMenuClose(m) == [m EXCEPT !.selectedLine = 0]

handleDeleteLine(m, lineId) ==
  [m EXCEPT !.horizontalLines = SelectSeq(@, LAMBDA line : line.id # lineId)]

handleColorChange(m, lineId, color) ==
  [m EXCEPT !.horizontalLines =
     [i \in 1..Len(@) |-> IF @[i].id = lineId
                          THEN [@[i] EXCEPT !.color = color] ELSE @[i]]]

\* ---- click listeners on chart.chartElement()
\* what a handleClick closure of useChartLineInteraction reads of the lines
Snap(lines) == [i \in 1..Len(lines) |-> [id |-> lines[i].id, price |-> lines[i].price]]

\* The effect that adds handleClick with capture: true removes it without
\* the capture flag, which removes nothing: when the effect re-runs, the
\* listener it had added stays.  stale lists these closures in the order
\* they were added; one equal to an earlier one acts as that one does.
LeakOnCommit(stale, oldLines, hadListener, rerun) ==
  IF hadListener /\ rerun /\ \A i \in 1..Len(stale) : stale[i] # Snap(oldLines)
  THEN Append(stale, Snap(oldLines))
  ELSE stale

\* handleClick of useChartLineInteraction: first try getPriceFromMouseY,
\* second try series.coordinateToPrice as it comes
lineClickPrice(raw) ==
  LET first == getPriceFromMouseY(raw)
  IN  IF first # Null THEN first ELSE raw

\* variant of lineClickTest: onLineClick is called and the event goes on
lineClickTest_NoStop(snapshot, raw) ==
  LET clickedPrice == lineClickPrice(raw)
  IN  IF clickedPrice # Null /\ isFinite(clickedPrice) /\ clickedPrice > 0
      THEN [tested |-> {clickedPrice},
            hit |-> findClosestLineForClick(PixelsPerPrice, snapshot,
                                            clickedPrice),
            stopped |-> FALSE]
      ELSE [tested |-> {}, hit |-> NoLine, stopped |-> FALSE]

\* handleClick of useChartLineInteraction with the lines of its closure:
\* the price it calls findClosestLineForClick with, the line found (for
\* which it calls onLineClick), and whether it called preventDefault,
\* stopPropagation and stopImmediatePropagation
lineClickTest(snapshot, raw) ==
  LET clickedPrice == lineClickPrice(raw)
      closestLine  == findClosestLineForClick(PixelsPerPrice, snapshot,
                                              clickedPrice)
  IN  IF clickedPrice # Null /\ isFinite(clickedPrice) /\ clickedPrice > 0
      THEN [tested |-> {clickedPrice}, hit |-> closestLine,
            stopped |-> closestLine # NoLine]
      ELSE [tested |-> {}, hit |-> NoLine, stopped |-> FALSE]

RECURSIVE DispatchCapture(_, _, _)
\* the capture listeners run in the order they were added, until one stops
\* the event; acc collects the prices tested, the ids onLineClick was
\* called with (the first of them in first) and whether the event was
\* stopped
DispatchCapture(listeners, raw, acc) ==
  IF listeners = <<>> \/ acc.stopped THEN acc
  ELSE LET t == lineClickTest(Head(listeners), raw)
       IN  DispatchCapture(Tail(listeners), raw,
             [tested  |-> acc.tested \cup t.tested,
              clicked |-> acc.clicked \cup
                            (IF t.hit # NoLine THEN {t.hit.id} ELSE {}),
              first   |-> IF acc.first = 0 THEN t.hit.id ELSE acc.first,
              stopped |-> t.stopped])

\* handleClick of useChartMouseInteraction: the price from the four tries
addClickPrice(hovered, raw) ==
  IF hovered # Null /\ isFinite(hovered) /\ hovered > 0 THEN hovered
  ELSE LET second == calculatePriceFromMouseY(raw)
           third  == IF second = Null THEN raw ELSE second
       IN  IF third = Null THEN calculatePriceFromMouseY(raw) ELSE third

\* variant of mouseAddLine: the price is not checked before onAddLine
mouseAddLine_NoGuard(hovered, raw) == {addClickPrice(hovered, raw)}

\* handleClick of useChartMouseInteraction: the prices onAddLine is called
\* with (none or one)
mouseAddLine(hovered, raw) ==
  LET price == addClickPrice(hovered, raw)
  IN  IF price # Null /\ isFinite(price) /\ price > 0 THEN {price} ELSE {}

\* as the latest render of ChartComponent saw them
hasDataR == phase = "mounted" /\ rDataLen > 0
enableLineAddingR == phase = "mounted" /\ ~rLoading /\ rDataLen > 0

\* ---- actions
\* A trusted click on the chart.  raw is what series.coordinateToPrice
\* returns for the row clicked, which is null while the series is empty
\* (useChartData has set no data).  When a line is added, ChartComponent
\* renders again with the new list, which is a commit of useBinanceData.
Click(raw) ==
  LET listeners == ui.stale \o (IF hasDataR THEN << Snap(ui.lines) >> ELSE <<>>)
      d     == DispatchCapture(listeners, raw,
                 [tested |-> {}, clicked |-> {}, first |-> 0, stopped |-> FALSE])
      \* the listener of useChartMouseInteraction runs unless the event was
      \* stopped, and returns at once if event.defaultPrevented
      added == IF ~d.stopped /\ enableLineAddingR
               THEN mouseAddLine(ui.hovered, raw) ELSE {}
      m0    == ModuleState(interval, ui)
      m1    == IF d.first # 0 THEN handleLineClick(m0, d.first) ELSE m0
      m2    == IF added # {}
               THEN handleAddLineAtPrice(m1, CHOOSE x \in added : TRUE, ui.nextId)
               ELSE m1
  IN  /\ phase = "mounted"
      /\ rDataLen = 0 => raw = Null
      /\ added # {} => ui.nextId <= MaxIds
      /\ ui' = [lines |-> m2.horizontalLines,
                nextId |-> IF added # {} THEN ui.nextId + 1 ELSE ui.nextId,
                selected |-> m2.selectedLine,
                hovered |-> ui.hovered,
                stale |-> LeakOnCommit(ui.stale, ui.lines, hasDataR, added # {}),
                fired |-> [clicked |-> TRUE, raw |-> raw, before |-> ui.lines,
                           tested |-> d.tested,
                           lineClicked |-> d.clicked,
                           added |-> added]]
      /\ IF added # {} THEN Commit("AddLine", symbol, interval)
                       ELSE UNCHANGED hookVars
      /\ UNCHANGED << stream, call, raf >>

\* the animation-frame callback of the crosshair handler of
\* useChartMouseInteraction: calculatePriceFromMouseY, then
\* coordinateToPrice checked, then the close of the bar under the pointer
\* as it is (null when there is no bar)
HoverFrame(raw, close) ==
  /\ phase = "mounted"
  /\ rDataLen = 0 => (raw = Null /\ close = Null)
  /\ ui' = [ui EXCEPT
              !.hovered = IF calculatePriceFromMouseY(raw) # Null
                          THEN calculatePriceFromMouseY(raw) ELSE close,
              !.fired = NoFired]
  /\ UNCHANGED << hookVars, stream, call, raf >>

\* handleMouseMove of useChartLineInteraction, which is listening while
\* the chart has data: getPriceFromMouseY, then the hit test for hover
lineHoverTest(snapshot, raw) ==
  LET hoveredPrice == getPriceFromMouseY(raw)
  IN  IF hoveredPrice # Null /\ isFinite(hoveredPrice) /\ hoveredPrice > 0
      THEN [tested |-> {hoveredPrice},
            hit |-> findClosestLineForHover(PixelsPerPrice, snapshot,
                                            hoveredPrice)]
      ELSE [tested |-> {}, hit |-> NoLine]

MouseMove(raw) ==
  /\ hasDataR
  /\ ui' = [ui EXCEPT !.fired =
              [NoFired EXCEPT
                 !.tested = lineHoverTest(Snap(ui.lines), raw).tested]]
  /\ UNCHANGED << hookVars, stream, call, raf >>

\* LineContextMenu: Delete, which calls onDelete and then onClose
MenuDelete ==
  LET m == handleMenuClose(handleDeleteLine(ModuleState(interval, ui), ui.selected))
  IN  /\ phase = "mounted"
      /\ ui.selected # 0
      /\ ui' = [ui EXCEPT !.lines = m.horizontalLines,
                          !.selected = m.selectedLine,
                          !.stale = LeakOnCommit(@, ui.lines, hasDataR, TRUE),
                          !.fired = NoFired]
      /\ Commit("DeleteLine", symbol, interval)
      /\ UNCHANGED << stream, call, raf >>

\* LineContextMenu: a color, which calls onColorChange and then onClose
MenuPickColor(color) ==
  LET m == handleMenuClose(handleColorChange(ModuleState(interval, ui),
                                             ui.selected, color))
  IN  /\ phase = "mounted"
      /\ ui.selected # 0
      /\ ui' = [ui EXCEPT !.lines = m.horizontalLines,
                          !.selected = m.selectedLine,
                          !.stale = LeakOnCommit(@, ui.lines, hasDataR, TRUE),
                          !.fired = NoFired]
      /\ Commit("ColorChange", symbol, interval)
      /\ UNCHANGED << stream, call, raf >>

\* LineContextMenu: closed without a choice
MenuClose ==
  LET m == handleMenuClose(ModuleState(interval, ui))
  IN  /\ phase = "mounted"
      /\ ui.selected # 0
      /\ ui' = [ui EXCEPT !.selected = m.selectedLine, !.fired = NoFired]
      /\ UNCHANGED << hookVars, stream, call, raf >>

\* IntervalSelectorWidget: another interval is chosen; ChartComponent
\* renders with it
SelectInterval(itv) ==
  LET m == handleIntervalChange(ModuleState(interval, ui), itv)
  IN  /\ phase = "mounted"
      /\ itv # interval
      /\ ui' = [ui EXCEPT !.lines = m.horizontalLines,
                          !.selected = m.selectedLine,
                          !.stale = LeakOnCommit(@, ui.lines, hasDataR,
                                                 (Len(data) > 0) # (rDataLen > 0)),
                          !.fired = NoFired]
      /\ Commit("ChangeInterval", symbol, m.interval)
      /\ UNCHANGED << stream, call, raf >>

\* ChartComponent renders again after loading or data.length changed
ChartRerender ==
  /\ phase = "mounted"
  /\ loading # rLoading \/ Len(data) # rDataLen
  /\ ui' = [ui EXCEPT !.stale = LeakOnCommit(@, ui.lines, hasDataR,
                                             (Len(data) > 0) # (rDataLen > 0))]
  /\ Commit("Rerender", symbol, interval)
  /\ UNCHANGED << stream, call, raf >>

\* the page as it is used: no limit option, one response, one candle
OneResponse == << [time |-> 1, close |-> 0] >>
OneCandle == [time |-> 2, close |-> 1]
SeriesCloses == {Null, NaN}
HoverRaws == {MaxPrice, Null}

InitUi == Init /\ limit = Undefined

ClickNext ==
  \/ Mount
  \/ \E itv \in Intervals : SelectInterval(itv)
  \/ ChartRerender
  \/ FetchSuccess(EffSlot, OneResponse)
  \/ \E raw \in RawPrices : Click(raw)
  \/ \E raw \in HoverRaws : \E close \in SeriesCloses : HoverFrame(raw, close)
  \/ \E raw \in HoverRaws : MouseMove(raw)
  \/ MenuDelete
  \/ MenuClose

SpecClick == InitUi /\ [][ClickNext]_vars

LinePrices == {1, MaxPrice}

LinesNext ==
  \/ Mount
  \/ \E itv \in Intervals : SelectInterval(itv)
  \/ ChartRerender
  \/ FetchSuccess(EffSlot, OneResponse)
  \/ FetchFailure(EffSlot, "upstream")
  \/ \E s \in 1..MaxSock : WsOpen(s)
  \/ \E s \in 1..MaxSock : WsMessage(s, OneCandle)
  \/ \E raw \in LinePrices : Click(raw)
  \/ MenuDelete
  \/ MenuPickColor(MenuColor)

SpecLines == InitUi /\ [][LinesNext]_vars

\* ===================================================================
\* requestAnimationFrame throttling of the crosshair handlers
\* (useCrosshair in hooks/useChartVolume.ts, useHoveredBarData,
\* useChartMouseInteraction)
\* ===================================================================
MaxEvents == 3    \* crosshair events in all

\* For each hook: active, the effect has subscribed; rafId, rafIdRef.current
\* (the callback of event n has id n); pending, the callbacks of the hook
\* the browser holds for the next frame; ran, the callbacks of the hook the
\* latest frame ran.

\* the hooks whose effect listens for mouseleave
LeaveHooks == {"useCrosshair", "useHoveredBarData"}

cancelAnimationFrame(pending, id) == pending \ {id}

\* crosshairHandler / handler: cancel the previous callback if rafIdRef is
\* set, then request a new one and keep its id
crosshairHandler(r, ev) ==
  LET kept == IF r.rafId # Null THEN cancelAnimationFrame(r.pending, r.rafId)
              ELSE r.pending
  IN  [r EXCEPT !.pending = kept \cup {ev}, !.rafId = ev, !.ran = {}]

\* handleMouseLeave, and the cleanup of the effect: cancel and forget
cancelPending(r) ==
  [r EXCEPT !.pending = IF r.rafId # Null
                        THEN cancelAnimationFrame(@, r.rafId) ELSE @,
            !.rafId = Null,
            !.ran = {}]

\* the body of the effect of hook h: subscribeCrosshairMove
EffectSetup(h) ==
  /\ ~raf.hook[h].active
  /\ raf' = [raf EXCEPT !.hook[h].active = TRUE, !.hook[h].ran = {},
                        !.last = "setup"]
  /\ UNCHANGED << hookVars, stream, call, ui >>

\* the cleanup of the effect of hook h
EffectCleanup(h) ==
  /\ raf.hook[h].active
  /\ raf' = [raf EXCEPT !.hook[h] = [cancelPending(@) EXCEPT !.active = FALSE],
                        !.last = "cleanup"]
  /\ UNCHANGED << hookVars, stream, call, ui >>

\* the chart reports a crosshair move to every subscribed handler
CrosshairMove ==
  /\ raf.events < MaxEvents
  /\ \E h \in RafHooks : raf.hook[h].active
  /\ raf' = [hook |-> [h \in RafHooks |->
                         IF raf.hook[h].active
                         THEN crosshairHandler(raf.hook[h], raf.events + 1)
                         ELSE raf.hook[h]],
             events |-> raf.events + 1,
             last |-> "move"]
  /\ UNCHANGED << hookVars, stream, call, ui >>

\* an animation frame: the browser runs the callbacks it holds; rafIdRef
\* keeps the id of a callback that has run
AnimationFrame ==
  /\ \E h \in RafHooks : raf.hook[h].pending # {}
  /\ raf' = [hook |-> [h \in RafHooks |->
                         [raf.hook[h] EXCEPT !.ran = raf.hook[h].pending,
                                             !.pending = {}]],
             events |-> raf.events,
             last |-> "frame"]
  /\ UNCHANGED << hookVars, stream, call, ui >>

\* the pointer leaves the chart: handleMouseLeave of the hooks that have one
MouseLeave ==
  /\ raf' = [hook |-> [h \in RafHooks |->
                         IF h \in LeaveHooks /\ raf.hook[h].active
                         THEN cancelPending(raf.hook[h])
                         ELSE [raf.hook[h] EXCEPT !.ran = {}]],
             events |-> raf.events,
             last |-> "leave"]
  /\ UNCHANGED << hookVars, stream, call, ui >>

RafNext ==
  \/ \E h \in RafHooks : EffectSetup(h)
  \/ \E h \in RafHooks : EffectCleanup(h)
  \/ CrosshairMove
  \/ AnimationFrame
  \/ MouseLeave

SpecRaf == Init /\ [][RafNext]_vars

\* ===================================================================
\* The historical loads of useBinanceData under a server that may never
\* answer: the requests and their timers, without the stream
\* ===================================================================
LoadNext ==
  \/ Mount
  \/ \E sym \in Symbols : ChangeSymbol(sym)
  \/ \E itv \in Intervals : ChangeInterval(itv)
  \/ Rerender
  \/ Unmount
  \/ \E r \in 0..MaxRefetch : FetchSuccess(r, OneResponse)
  \/ \E r \in 0..MaxRefetch : \E err \in FetchErrors : FetchFailure(r, err)
  \/ \E r \in 0..MaxRefetch : FetchTimeout(r)
  \/ Refetch

\* setTimeout(..., CHART_CONFIG.requestTimeout) of performFetch and of
\* fetchData: the timer of a request that stays pending fires.  The timer
\* of the effect-driven request is cleared by the cleanup of the effect and
\* set again by the next load; fairness for the slot says that the host
\* does not go on changing the selection for ever.
TimersFire == \A r \in 0..MaxRefetch : WF_vars(FetchTimeout(r))

SpecLoad == InitUi /\ [][LoadNext]_vars /\ TimersFire

\* ===================================================================
\* Properties
\* ===================================================================
IsWsMerge(l) == l.act = "WsMessage" /\ l.wrote
IsLoadStep(l) == l.act \in {"Mount", "ChangeSymbol", "ChangeInterval", "Refetch"}
IsFetchSettle(l) == l.act \in {"FetchSuccess", "FetchFailure", "FetchTimeout"}
IsFetchFail(l) == l.act \in {"FetchFailure", "FetchTimeout"}

\* ChartComponent: hasError (ErrorOverlay shown)
hasError == error # "none" /\ Len(data) = 0

BadSymbol == <<"B","T","C">>

PendingReqs(rq) == {r \in 0..MaxRefetch : rq[r].state = "pending"}

\* C1: a stream candle whose time equals the time of the last candle of a
\* non-empty series replaces that last candle: the length and every earlier
\* element are unchanged.
C1_ReplaceLast ==
  [][ (IsWsMerge(last') /\ data # <<>>
         /\ data[Len(data)].time = last'.inb.time)
      => /\ Len(data') = Len(data)
         /\ data'[Len(data)] = last'.inb
         /\ \A i \in 1..(Len(data) - 1) : data'[i] = data[i] ]_vars

\* C1 witness: a candle with another close price has replaced the last of
\* two candles
C1_Witness ==
  /\ IsWsMerge(last)
  /\ last.prevLen = 2
  /\ last.prevLastTime = last.inb.time
  /\ Len(data) = 2
  /\ data[2] = last.inb
  /\ data[2].close = 1

\* C2: a stream candle arriving at an empty series, or with a time other
\* than the last candle's (later or earlier), is appended, and the result is
\* the last M elements of the appended series, M the configured maximum: of
\* length M exactly once more than M candles were there, in the same order.
C2_AppendAndEvict ==
  [][ (IsWsMerge(last')
         /\ (data = <<>> \/ data[Len(data)].time # last'.inb.time))
      => LET M        == calculatedLimit(limit, interval)
             appended == Append(data, last'.inb)
             n        == Len(appended)
             k        == Min(n, M)
         IN  /\ Len(data') = k
             /\ \A i \in 1..k : data'[i] = appended[n - k + i] ]_vars

\* C2 witness: an append to a series that already held M candles
C2_Witness ==
  /\ IsWsMerge(last)
  /\ limit = SmallLimit
  /\ last.prevLen = SmallLimit
  /\ last.prevLastTime # last.inb.time
  /\ Len(data) = SmallLimit
  /\ data[Len(data)] = last.inb

\* C3: a stream is connecting or open only over a candle series that a
\* completed historical load for the stream's own symbol and interval has
\* set, also when the current fetch ended in an error: stated for the
\* streams a re-render (a commit caused by a change of loading or
\* data.length) leaves connecting or open while an error is in state.
C3_StreamOnlyOverOwnLoad ==
  \A s \in 1..MaxSock :
    (last.act = "Rerender" /\ error # "none"
       /\ socks[s].state \in {"connecting", "open"})
      => dataSel = Sel(socks[s].symbol, socks[s].interval)

\* C4: a handler of a historical request (response, failure, timeout) sets
\* data, loading or error only while the component is mounted with the
\* symbol and interval the request was started for.
C4_NoStaleWrite ==
  (IsFetchSettle(last) /\ last.wrote)
    => (phase = "mounted" /\ last.symbol = symbol /\ last.interval = interval)

\* C5: at most one WebSocket of the hook is connecting or open at any time,
\* and none after unmount.
C5_AtMostOneStream ==
  /\ Cardinality(LiveSocks(socks)) <= 1
  /\ phase = "unmounted" => LiveSocks(socks) = {}

\* C5 witness: the unmount closed the live stream
C5_Witness ==
  /\ last.act = "Unmount"
  /\ last.closed
  /\ LiveSocks(socks) = {}
  /\ \E s \in 1..MaxSock : socks[s].state = "closed"

\* C6: candle times are strictly increasing along the series.
C6_StrictlyAscending == IsAscending(data)

\* C7: the series is never longer than the configured maximum.
C7_LengthBounded == Len(data) <= calculatedLimit(limit, interval)

\* C7 witness: with an explicit limit, a stream candle arrived at a series
\* of exactly that length and the series kept that length
C7_Witness ==
  /\ limit = SmallLimit
  /\ IsWsMerge(last)
  /\ last.prevLen = calculatedLimit(limit, interval)
  /\ last.prevLastTime # last.inb.time
  /\ Len(data) = calculatedLimit(limit, interval)

\* C8 (as stated): a load for a symbol of the wrong format, effect-driven or
\* refetch, issues no request, leaves no stream connecting or open, sets the
\* validation error and loading = false, and leaves the series unchanged.
C8_InvalidSymbolSeriesUnchanged ==
  [][ (IsLoadStep(last') /\ symbol' = BadSymbol)
      => /\ PendingReqs(reqs') \subseteq PendingReqs(reqs)
         /\ LiveSocks(socks') = {}
         /\ error' = "validation"
         /\ loading' = FALSE
         /\ data' = data ]_vars

\* C8 (amended): as above, except that the series is emptied when the load
\* was triggered by a change of interval, and unchanged otherwise.
C8_InvalidSymbolNoNetwork ==
  [][ (IsLoadStep(last') /\ symbol' = BadSymbol)
      => /\ PendingReqs(reqs') \subseteq PendingReqs(reqs)
         /\ LiveSocks(socks') = {}
         /\ error' = "validation"
         /\ loading' = FALSE
         /\ data' = IF last'.act = "ChangeInterval" THEN <<>> ELSE data ]_vars

\* C8 witness: the symbol changed to one of the wrong format while candles
\* and a stream were there
C8_Witness ==
  /\ last.act = "ChangeSymbol"
  /\ last.closed
  /\ symbol = BadSymbol
  /\ error = "validation"
  /\ ~loading
  /\ data # <<>>
  /\ PendingReqs(reqs) = {}
  /\ LiveSocks(socks) = {}

\* C9: once the handlers of a timed-out request have run and set state, the
\* error in state is the timeout error.
C9_TimeoutError ==
  (last.act = "FetchTimeout" /\ last.wrote) => error = "timeout"

\* C10: a failed historical fetch (upstream, empty result, timeout) leaves
\* the series as it was, and with candles present the error overlay is not
\* shown.
C10_FailureKeepsSeries ==
  [][ IsFetchFail(last')
      => /\ data' = data
         /\ data # <<>> => ~hasError' ]_vars

\* C10 witness: an effect-driven load failed while candles were present
C10_Witness ==
  /\ last.act = "FetchFailure"
  /\ last.wrote
  /\ error \in FetchErrors
  /\ data # <<>>
  /\ ~hasError
  /\ ~loading

\* C11: a connection-level stream error calls the onError callback, which
\* sets nothing: data, loading and error of the hook are as before, so the
\* candles on display stay and no error state is entered.
C11_StreamErrorLeavesState ==
  [][ last'.act = "WsFail"
      => /\ data' = data
         /\ loading' = loading
         /\ error' = error
         /\ ~last'.wrote ]_vars

\* C11 witness: the stream failed while loaded candles were on display
\* without an error
C11_Witness ==
  /\ last.act = "WsFail"
  /\ phase = "mounted"
  /\ data # <<>>
  /\ error = "none"
  /\ ~loading
  /\ LiveSocks(socks) = {}
  /\ wsRef # NoSock
  /\ socks[wsRef].state = "closed"

IsNumberText(str) == str # <<>> /\ \A i \in 1..Len(str) : str[i] \in DOMAIN DigitOf
WellFormed(m) ==
  m.kind = "object" /\ m.hasK /\ m.t # Undefined /\ IsNumberText(m.c)
KlineOf(m) == [time |-> m.t \div 1000, close |-> DigitPrefix(m.c, 0)]

\* C12: onMessage has been called exactly once for each well-formed kline
\* message, in arrival order, and never for a malformed one, so no kline
\* with a non-numeric (NaN) field has been delivered.
C12_OnlyWellFormedDelivered ==
  LET wf == SelectSeq(stream.arrived, WellFormed)
  IN  /\ stream.delivered = [i \in 1..Len(wf) |-> KlineOf(wf[i])]
      /\ \A i \in 1..Len(stream.delivered) :
            stream.delivered[i].time # NaN /\ stream.delivered[i].close # NaN

\* C14: the bar count sent in a historical request is min(limit,
\* INTERVAL_MAX_LIMITS[interval]) for every interval and every limit the
\* caller supplies, so it never exceeds the upstream maximum.
C14_LimitClamped ==
  (call.fn = "fetchKlines" /\ call.done /\ call.limit # Undefined)
    => /\ call.sent = Min(call.limit, IntervalMaxLimit)
       /\ call.sent <= IntervalMaxLimit

\* C15: validateSymbol accepts exactly the strings that, upper-cased, are
\* 2 to 10 letters A-Z followed by USDT and nothing else; BTCUSDT and
\* btcusdt pass, BTC, TOOLONGSYMBOLUSDT and BTC-USDT fail.
Letters == Range(UpperChars) \cup Range(LowerChars)
IsSymbolShape(str) ==
  \E k \in 2..10 :
    /\ Len(str) = k + 4
    /\ \A i \in 1..k : str[i] \in Letters
    /\ str[k + 1] \in {"U", "u"} /\ str[k + 2] \in {"S", "s"}
    /\ str[k + 3] \in {"D", "d"} /\ str[k + 4] \in {"T", "t"}
C15_ValidateSymbolExact ==
  (call.fn = "validateSymbol" /\ call.done) =>
    /\ call.result = IsSymbolShape(call.symbol)
    /\ call.symbol \in { <<"B","T","C","U","S","D","T">>,
                          <<"b","t","c","u","s","d","t">> } => call.result
    /\ call.symbol \in NamedSymbols /\ Len(call.symbol) # 7 => ~call.result

\* a lower-case symbol of the greatest accepted length was accepted
C15_Witness ==
  /\ call.fn = "validateSymbol" /\ call.done
  /\ call.symbol = Run(10, "z") \o <<"u","s","d","t">>
  /\ call.result

\* C17: findClosestLineForHover / findClosestLineForClick return a line
\* whose pixel distance to the candidate price is minimal among all lines
\* and at most the tolerance (5 px for hover, 10 px for click), and null
\* exactly when no line is within the tolerance; so a line accepted for
\* hover at a price is within the click tolerance at that price.
PixelsAway(l) == priceToPixel(call.scale, l.price, call.price)
WithinPx(tol) ==
  { i \in 1..Len(call.lines) :
      PixelsAway(call.lines[i]) # Null /\ PixelsAway(call.lines[i]) <= tol }
C17_HitTest ==
  (call.fn \in {"findClosestLineForHover", "findClosestLineForClick"}
     /\ call.done) =>
    LET tol == IF call.fn = "findClosestLineForHover" THEN 5 ELSE 10
        res == call.result
    IN  /\ (res = NoLine) <=> (WithinPx(tol) = {})
        /\ res # NoLine =>
             /\ \E i \in WithinPx(tol) : call.lines[i] = res
             /\ \A i \in WithinPx(Infinity) :
                  PixelsAway(res) <= PixelsAway(call.lines[i])
        /\ (call.fn = "findClosestLineForHover" /\ res # NoLine) =>
             /\ PixelsAway(res) <= 10
             /\ findClosestLineForClick(call.scale, call.lines, call.price)
                  # NoLine

\* the second of two lines within the tolerance was the nearer one and
\* was returned
C17_Witness ==
  /\ call.fn = "findClosestLineForHover" /\ call.done
  /\ Len(call.lines) = 2
  /\ WithinPx(5) = {1, 2}
  /\ call.result = call.lines[2]
  /\ PixelsAway(call.lines[2]) < PixelsAway(call.lines[1])

\* C16: per click the two actions exclude each other: a click within
\* click tolerance of an existing line calls the line-click callback and
\* not the add-line callback, and at most one of onLineClick and onAddLine
\* is called per click.
NearLine(lines, raw) ==
  /\ raw \in 1..(Infinity - 1)
  /\ \E i \in 1..Len(lines) :
       LET px == priceToPixel(PixelsPerPrice, lines[i].price, raw)
       IN  px # Null /\ px <= 10
C16_ClickExclusive ==
  ui.fired.clicked =>
    /\ NearLine(ui.fired.before, ui.fired.raw) =>
         (ui.fired.lineClicked # {} /\ ui.fired.added = {})
    /\ Cardinality(ui.fired.lineClicked) + Cardinality(ui.fired.added) <= 1

\* with line adding enabled, the second of two lines was clicked and only
\* the line-click callback was called
C16_Witness ==
  /\ ui.fired.clicked
  /\ enableLineAddingR
  /\ Len(ui.fired.before) = 2
  /\ NearLine(ui.fired.before, ui.fired.raw)
  /\ ui.fired.lineClicked = {ui.fired.before[2].id}
  /\ ui.fired.added = {}

\* C19: a pixel-to-price result that is null, not finite or not above 0
\* counts as no price: getPriceFromMouseY and calculatePriceFromMouseY
\* return null for it, no click calls onAddLine or a line hit test with
\* such a price, and every horizontal line has a finite price above 0.
GoodPrice(x) == x \in 1..(Infinity - 1)
C19_OnlyGoodPrices ==
  /\ \A raw \in RawPrices :
       /\ getPriceFromMouseY(raw) = (IF GoodPrice(raw) THEN raw ELSE Null)
       /\ calculatePriceFromMouseY(raw) = (IF GoodPrice(raw) THEN raw ELSE Null)
  /\ \A x \in ui.fired.tested \cup ui.fired.added : GoodPrice(x)
  /\ \A i \in 1..Len(ui.lines) : GoodPrice(ui.lines[i].price)

\* with line adding enabled and a line present, a click whose row has no
\* number for a price, after a hover that left NaN, did nothing
C19_Witness ==
  /\ ui.fired.clicked
  /\ enableLineAddingR
  /\ ui.fired.raw = NaN
  /\ ui.hovered = NaN
  /\ ui.lines # <<>>
  /\ ui.fired.before = ui.lines
  /\ ui.fired.tested = {} /\ ui.fired.added = {} /\ ui.fired.lineClicked = {}

\* C20: the horizontal lines do not depend on what happens to the candles:
\* an interval change, a reload, a fetch error or a streaming update
\* leaves the list (ids, prices, colors, order) as it is, and a line
\* leaves the list only by being deleted.
LineIds(lines) == {lines[i].id : i \in 1..Len(lines)}
C20_LinesOutliveCandles ==
  [][ /\ ui'.lines # ui.lines =>
           last'.act \in {"AddLine", "DeleteLine", "ColorChange"}
      /\ last'.act \in {"Mount", "ChangeInterval", "Rerender", "Refetch",
                       "FetchSuccess", "FetchFailure", "WsOpen", "WsMessage"}
           => ui'.lines = ui.lines
      /\ ~(LineIds(ui.lines) \subseteq LineIds(ui'.lines)) =>
           /\ last'.act = "DeleteLine"
           /\ ui.selected # 0
           /\ ui'.lines = SelectSeq(ui.lines, LAMBDA l : l.id # ui.selected)
    ]_vars

\* two lines, the first recolored, are in the list when a streaming update
\* is merged into the candles loaded for another interval than the first
C20_Witness ==
  /\ Len(ui.lines) = 2
  /\ ui.lines[1].color = MenuColor
  /\ interval # DefaultInterval
  /\ last.act = "WsMessage" /\ last.wrote
  /\ dataSel = Sel(symbol, interval)

\* C18: in each of the three hooks at most one animation-frame callback
\* is pending at any time, a frame runs at most one callback per hook and
\* it is the one of the latest event, and no callback is pending after
\* mouse-leave or after the cleanup of the effect.
C18_RafThrottle ==
  \A h \in RafHooks :
    LET r == raf.hook[h]
    IN  /\ Cardinality(r.pending) <= 1
        /\ Cardinality(r.ran) <= 1
        /\ r.ran \subseteq {raf.events}
        /\ raf.last = "leave" => r.pending = {}
        /\ ~r.active => r.pending = {}

\* C28: whatever lines were added, deleted or recoloured before, a click
\* calls the line-click callback only with the id of a line of the current
\* list, and a click that is not within click tolerance of a current line
\* is not taken by the line-click handling (so that it can add a line).
C28_ClicksSeeCurrentLines ==
  ui.fired.clicked =>
    /\ ui.fired.lineClicked \subseteq LineIds(ui.fired.before)
    /\ ~NearLine(ui.fired.before, ui.fired.raw) => ui.fired.lineClicked = {}

\* a load has just set loading to true
LoadStarted ==
  /\ loading
  /\ last.wrote
  /\ last.act \in {"Mount", "ChangeSymbol", "ChangeInterval", "Refetch"}

\* C29 as stated: every load that sets loading to true is followed by
\* loading = false, whatever the server does.
C29_LoadingAlwaysEnds == LoadStarted ~> ~loading

\* C29: every load that sets loading to true is followed by loading =
\* false, by a response, a failure or the timer of the request, unless the
\* component unmounts first.
C29_LoadingEndsWhileMounted ==
  LoadStarted ~> (~loading \/ phase = "unmounted")

\* the timer of an effect-driven load of a mounted hook has ended the load
C29_Witness ==
  /\ phase = "mounted"
  /\ last.act = "FetchTimeout"
  /\ last.wrote
  /\ ~loading
  /\ error = "timeout"

\* ---- the indicator functions
Done(fn) == call.fn = fn /\ call.done

RECURSIVE TotalClose(_, _, _)
\* the sum of the closes of candles first .. first + n - 1 (counted from 1)
TotalClose(bars, first, n) ==
  IF n = 0 THEN 0 ELSE bars[first].close + TotalClose(bars, first + 1, n - 1)

\* the arithmetic mean of those closes, NaN when one of them is NaN
MeanClose(bars, first, n) ==
  IF \E j \in first..(first + n - 1) : bars[j].close = NaN THEN NaNValue
  ELSE Frac(TotalClose(bars, first, n), n)

\* C21: for a series of N candles and a period P with 1 <= P <= N,
\* calculateMA returns N - P + 1 points; point i (from 0) carries the time
\* of candle i + P - 1 and the mean of the closes of candles i .. i + P - 1.
C21_MAWindowMean ==
  (Done("calculateMA") /\ call.period <= Len(call.bars)) =>
    LET out == call.result.out
        P == call.period
    IN  /\ ~call.result.threw
        /\ Len(out) = Len(call.bars) - P + 1
        /\ \A k \in 1..Len(out) :
             /\ out[k].time = call.bars[k + P - 1].time
             /\ out[k].value = MeanClose(call.bars, k, P)

C21_Witness ==
  /\ Done("calculateMA")
  /\ call.period = 2
  /\ Len(call.bars) = 4
  /\ \A j \in 1..4 : call.bars[j].close = IF j = 2 THEN 2 ELSE 1
  /\ call.result.out[1].value = Frac(3, 2)
  /\ call.result.out[3].value = Num(1)

\* C22: for a series shorter than the period, calculateMA, calculateEMA
\* and calculateRSI return an empty series, calculateRSI also for a series
\* exactly as long as the period, and none of them throws.
C22_ShortSeriesEmpty ==
  \A fn \in {"calculateMA", "calculateEMA", "calculateRSI"} :
    (/\ Done(fn)
     /\ \/ Len(call.bars) < call.period
        \/ fn = "calculateRSI" /\ Len(call.bars) = call.period) =>
      call.result = Returned(<<>>)

C22_Witness ==
  /\ Done("calculateRSI")
  /\ Len(call.bars) = call.period
  /\ call.period = 2
  /\ call.result.out = <<>>

\* C23: for N >= P >= 1 calculateEMA returns N - P + 1 points; the first
\* is at candle P - 1 and is the mean of the first P closes; a later point
\* k is at candle P - 1 + k and equals
\* (close - prevEMA) * (2 / (P + 1)) + prevEMA.
C23_EMARecurrence ==
  (Done("calculateEMA") /\ call.period <= Len(call.bars)) =>
    LET out == call.result.out
        P == call.period
    IN  /\ ~call.result.threw
        /\ Len(out) = Len(call.bars) - P + 1
        /\ out[1].time = call.bars[P].time
        /\ out[1].value = MeanClose(call.bars, 1, P)
        /\ \A k \in 2..Len(out) :
             /\ out[k].time = call.bars[P - 1 + k].time
             /\ out[k].value =
                  Plus(Times(Minus(Num(call.bars[P - 1 + k].close),
                                   out[k - 1].value),
                             Frac(2, P + 1)),
                       out[k - 1].value)

C23_Witness ==
  /\ Done("calculateEMA")
  /\ call.period = 2
  /\ Len(call.bars) = 4
  /\ \A j \in 1..4 : call.bars[j].close = IF j = 1 THEN 1 ELSE 4
  /\ call.result.out[1].value = Frac(5, 2)
  /\ call.result.out[2].value = Frac(7, 2)
  /\ call.result.out[3].value = Frac(23, 6)

\* C24: for N >= P + 1 calculateRSI returns N - P points, the k-th (from
\* 0) at candle P + k, and every value lies in 0..100.
C24_RSIRange ==
  (Done("calculateRSI") /\ Len(call.bars) >= call.period + 1) =>
    LET out == call.result.out
        P == call.period
    IN  /\ ~call.result.threw
        /\ Len(out) = Len(call.bars) - P
        /\ \A k \in 1..Len(out) :
             /\ out[k].time = call.bars[P + k].time
             /\ ~IsNaN(out[k].value)
             /\ 0 <= out[k].value.n
             /\ out[k].value.n <= 100 * out[k].value.d

NonDecreasing(bars) ==
  /\ \A j \in 1..Len(bars) : bars[j].close # NaN
  /\ \A j \in 1..(Len(bars) - 1) : bars[j].close <= bars[j + 1].close

\* C25: for a series of closes that never decrease, longer than the
\* period, every point calculateRSI returns has the value 100.
C25_RisingIsHundred ==
  (/\ Done("calculateRSI")
   /\ Len(call.bars) > call.period
   /\ NonDecreasing(call.bars)) =>
    /\ call.result.out # <<>>
    /\ \A k \in 1..Len(call.result.out) : call.result.out[k].value = Num(100)

C25_Witness ==
  /\ Done("calculateRSI")
  /\ call.period = 1
  /\ Len(call.bars) = 4
  /\ \A j \in 1..4 : call.bars[j].close = IF j = 4 THEN 2 ELSE 1
  /\ Len(call.result.out) = 3
  /\ call.result.out[1].value = Num(100)

\* C26: calculateIndicator gives what calculateMA, calculateEMA and
\* calculateRSI give for the period of the config, with 14 for the RSI
\* when the period is absent or 0; any other kind gives an empty series and
\* no exception.
C26_Dispatch ==
  Done("calculateIndicator") =>
    LET cf == call.config
    IN  /\ cf.type = "MA" => call.result = calculateMA(call.bars, cf.period)
        /\ cf.type = "EMA" => call.result = calculateEMA(call.bars, cf.period)
        /\ (cf.type = "RSI" /\ cf.period \notin {Undefined, 0}) =>
             call.result = calculateRSI(call.bars, cf.period)
        /\ (cf.type = "RSI" /\ cf.period \in {Undefined, 0}) =>
             call.result = calculateRSI(call.bars, 14)
        /\ cf.type \notin {"MA", "EMA", "RSI"} =>
             call.result = Returned(<<>>)

C26_Witness ==
  /\ Done("calculateIndicator")
  /\ call.config = [type |-> "RSI", period |-> 0]
  /\ call.bars = LongSeries
  /\ Len(call.result.out) = 2
  /\ call.result.out[1].time = call.bars[15].time

\* C27: transformKline and ws.onmessage both give floor(ms / 1000) as the
\* time and the numbers of the five texts as open, high, low, close and
\* volume; for one bar they give the same candle, and the stream update of
\* the last loaded bar replaces it.
C27_SameCandle ==
  Done("transformKline") =>
    /\ call.rest.time = call.raw[1] \div 1000
    /\ call.rest.open = parseFloat(call.raw[2])
    /\ call.rest.high = parseFloat(call.raw[3])
    /\ call.rest.low = parseFloat(call.raw[4])
    /\ call.rest.close = parseFloat(call.raw[5])
    /\ call.rest.volume = parseFloat(call.raw[6])
    /\ call.live = call.rest
    /\ call.merged = << call.live >>

C27_Witness ==
  /\ Done("transformKline")
  /\ call.raw = << 1999, <<"1">>, <<"2">>, <<"1">>, <<"2">>, <<"a">> >>
  /\ call.rest = [time |-> 1, open |-> 1, high |-> 2, low |-> 1, close |-> 2,
                  volume |-> NaN]
  /\ call.merged = << call.rest >>

\* C30: on a series strictly ascending by time findBarByTime returns the
\* candle with the requested time when there is one, otherwise the candle
\* with the greatest time below it, and null exactly when the series is
\* empty or the time is before the first candle; the search ends after at
\* most one pass per candle on every series.
C30_FindBar ==
  Done("findBarByTime") =>
    LET bars == call.bars
        t == call.time
        r == call.result.bar
        below == {j \in 1..Len(bars) : bars[j].time <= t}
    IN  /\ call.result.steps <= Len(bars)
        /\ IsAscending(bars) =>
             /\ (r = NoCandle) <=> (Len(bars) = 0 \/ t < bars[1].time)
             /\ below # {} =>
                  \E j \in below :
                    /\ r = bars[j]
                    /\ \A i \in below : bars[i].time <= bars[j].time

C30_Witness ==
  /\ Done("findBarByTime")
  /\ Len(call.bars) = 4
  /\ \A j \in 1..4 : call.bars[j].time = IF j = 1 THEN 1 ELSE j + 1
  /\ call.time = 2
  /\ call.result.bar = call.bars[1]

====
